---- MODULE Spec2Model ----
(***************************************************************************)
(* A model of the AEHD acceleration layer of QEMU                          *)
(* (target/i386/aehd/aehd-all.c): the IRQ/MSI routing table, the memory    *)
(* slot manager and the vCPU register-synchronisation / run loop.          *)
(*                                                                         *)
(* Each subsystem has its own specification (SpecRouting, SpecMemory,      *)
(* SpecVcpu) over the shared variables; the variables of the other         *)
(* subsystems stay unchanged in it.                                        *)
(***************************************************************************)
EXTENDS Integers, Sequences, FiniteSets, TLC

(***************************************************************************)
(* Bounds of the model.                                                    *)
(***************************************************************************)
\* s->gsi_count: the GSI capacity the hypervisor advertises (line 595).
GsiCount == 2
\* The routing table is not grown beyond this many entries in the model.
MaxRoutes == 3
\* TLC's integers have 32 bits, so the 64-bit MSI address is kept at
\* a quarter of its width: AddrHalf stands for 2^32, the range of each of
\* address_lo and address_hi.
AddrHalf == 65536

(***************************************************************************)
(* Program constants.                                                      *)
(***************************************************************************)
\* The least capacity aehd_add_routing_entry grows the table to.
MinAllocatedRoutes == 64

AEHD_IRQ_ROUTING_IRQCHIP == "IRQCHIP"
AEHD_IRQ_ROUTING_MSI == "MSI"
\* -ENOSPC and -ESRCH, the negative results of get_virq and of
\* update_routing_entry.
NEG_ENOSPC == -28
NEG_ESRCH == -3
\* -E2BIG, -EAGAIN and -EFAULT, the negative results of the control calls;
\* -EINTR, which aehd_init and aehd_cpu_exec test for; -ENODEV, the result
\* of aehd_init without the device.
NEG_E2BIG == -7
NEG_EAGAIN == -11
NEG_EFAULT == -14
NEG_EINTR == -4
NEG_ENODEV == -19

(***************************************************************************)
(* The control calls: DeviceIoControl on the handle of the device, of the  *)
(* virtual machine or of a vCPU.                                           *)
(***************************************************************************)
\* What GetLastError reports after a failed DeviceIoControl.
Causes ==
    {"ERROR_MORE_DATA", "ERROR_RETRY", "ERROR_OPERATION_ABORTED",
     "ERROR_ACCESS_DENIED"}

\* What a DeviceIoControl comes to: success, or failure with a cause.
IoResults ==
    {[ok |-> TRUE, error |-> "ERROR_SUCCESS"]}
        \cup {[ok |-> FALSE, error |-> e] : e \in Causes}

\* aehd_ioctl: the control call on s->fd.
aehd_ioctl(io) ==
    IF ~io.ok
    THEN CASE io.error = "ERROR_MORE_DATA" -> NEG_E2BIG
           [] io.error = "ERROR_RETRY" -> NEG_EAGAIN
           [] OTHER -> NEG_EFAULT
    ELSE 0

\* aehd_vm_ioctl reporting an aborted call as -EINTR.
aehd_vm_ioctl_interrupted(io) ==
    IF ~io.ok
    THEN CASE io.error = "ERROR_MORE_DATA" -> NEG_E2BIG
           [] io.error = "ERROR_RETRY" -> NEG_EAGAIN
           [] io.error = "ERROR_OPERATION_ABORTED" -> NEG_EINTR
           [] OTHER -> NEG_EFAULT
    ELSE 0

\* aehd_vm_ioctl: the control call on s->vmfd.
aehd_vm_ioctl(io) ==
    IF ~io.ok
    THEN CASE io.error = "ERROR_MORE_DATA" -> NEG_E2BIG
           [] io.error = "ERROR_RETRY" -> NEG_EAGAIN
           [] OTHER -> NEG_EFAULT
    ELSE 0

\* aehd_vcpu_ioctl: the control call on cpu->aehd_fd.
aehd_vcpu_ioctl(io) ==
    IF ~io.ok
    THEN CASE io.error = "ERROR_MORE_DATA" -> NEG_E2BIG
           [] io.error = "ERROR_RETRY" -> NEG_EAGAIN
           [] OTHER -> NEG_EFAULT
    ELSE 0

\* The name of a negative result.
ErrnoName(ret) ==
    CASE ret = NEG_E2BIG -> "E2BIG"
      [] ret = NEG_EAGAIN -> "EAGAIN"
      [] ret = NEG_EFAULT -> "EFAULT"
      [] ret = NEG_EINTR -> "EINTR"
      [] OTHER -> "E"

(***************************************************************************)
(* Inputs of the routing operations.                                       *)
(***************************************************************************)
\* MSIMessage values (address, data).  The first two differ in data but
\* share the low byte of data (the same bucket); the third has another
\* address, with a nonzero high half, and falls into another bucket.
MsgA == [address |-> 65248, data |-> 33]
MsgB == [address |-> 65248, data |-> 289]
MsgC == [address |-> 130784, data |-> 34]
MsgZero == [address |-> 0, data |-> 0]
Messages == {MsgA, MsgB, MsgC}
\* The messages add_msi_route is called with: the zero message of a NULL
\* device.
DeviceMessages == {MsgZero}
\* The messages update_msi_route is called with.
UpdateMessages == {MsgB}
\* The irqchips and pins add_irq_route is called with: the PIC master and
\* the IOAPIC; pin 0, and a pin no GSI capacity of the model reaches.
Irqchips == {0, 2}
BadPin == 1000
Pins == {0, BadPin}
\* GSIs given irqchip routes.
IrqchipGsis == {0}
Gsis == 0 .. (GsiCount - 1)

VARIABLES
    \* ---- IRQ/MSI routing table (AEHDState) ----
    irq_routes,               \* s->irq_routes->entries[0 .. nr-1]
    nr_allocated_irq_routes,  \* s->nr_allocated_irq_routes
    used_gsi_bitmap,          \* s->used_gsi_bitmap, as the set of set bits
    msi_hashtab,              \* s->msi_hashtab[hash]: the list of AEHDMSIRoute
    shared_gsis,              \* GSIs add_irq_route routed while already routed
    irq_last,                 \* what the last routing operation did
    hv_cached,                \* the cached routes in the table last committed
    \* ---- memory slots (AEHDMemoryListener) and the memory core ----
    slots,                    \* gml->slots[0 .. nr_slots-1]
    present,                  \* the sections of the address space's flat view
    mr_log,                   \* memory_region_get_dirty_log_mask(mr)
    mr_romd,                  \* mr->romd_mode
    slot_of,                  \* the slot region_add registered a section in
    mem_last,                 \* what the last listener callback did
    \* ---- one vCPU (CPUState) ----
    vcpu_dirty,               \* cpu->vcpu_dirty
    emu_regs,                 \* the emulator's copy of the registers
    hv_regs,                  \* the hypervisor's copy of the registers
    unpushed,                 \* the emulator's copy holds a change not pushed
    pc,                       \* where the vCPU thread is in aehd_cpu_exec
    iothread_locked,          \* the vCPU thread holds the iothread lock
    exit_request,             \* cpu->exit_request
    run_outcome,              \* what the run call came back with
    aehd_run,                 \* cpu->aehd_run: what the exit came with
    exec_log,                 \* the calls of aehd_cpu_exec, in order
    exec_ret,                 \* ret of aehd_cpu_exec
    work,                     \* the callbacks queued for the vCPU thread
    vcpu_last,                \* what the last operation on the vCPU did
    other_in_lock,            \* another thread holds the iothread lock
    user_event_pending,       \* run->user_event_pending
    kick_pending,             \* the hypervisor has a kick of the vCPU to honour
    kick_last,                \* what the last aehd_raise_event did
    \* ---- the vCPUs' handles (AEHDState and the CPUStates) ----
    aehd_parked_vcpus,        \* s->aehd_parked_vcpus, head first
    cpus,                     \* the CPUState of each vcpu_id
    nr_created,               \* the handles the hypervisor has created
    life_last,                \* what the last init or destroy of a vCPU did
    \* ---- the accelerator (AEHDState) and its control calls ----
    ioctl_last,               \* the last control call and what it returned
    init_last,                \* what aehd_init did
    crashed                   \* "" or why the process was terminated

irq_vars == <<irq_routes, nr_allocated_irq_routes, used_gsi_bitmap,
              msi_hashtab, shared_gsis, irq_last, hv_cached>>

mem_vars == <<slots, present, mr_log, mr_romd, slot_of, mem_last>>

vcpu_vars == <<vcpu_dirty, emu_regs, hv_regs, unpushed, pc, iothread_locked,
               exit_request, run_outcome, aehd_run, exec_log, exec_ret, work,
               vcpu_last, other_in_lock>>

kick_vars == <<user_event_pending, kick_pending, kick_last>>

life_vars == <<aehd_parked_vcpus, cpus, nr_created, life_last, ioctl_last,
               init_last>>

vars == <<vcpu_dirty, emu_regs, hv_regs, unpushed, pc, iothread_locked,
          exit_request, run_outcome, aehd_run, exec_log, exec_ret, work,
          vcpu_last, other_in_lock,
          user_event_pending, kick_pending, kick_last,
          aehd_parked_vcpus, cpus, nr_created, life_last, ioctl_last,
          init_last,
          slots, present, mr_log, mr_romd, slot_of, mem_last,
          irq_routes, nr_allocated_irq_routes, used_gsi_bitmap, msi_hashtab,
          shared_gsis, irq_last, hv_cached, crashed>>

(***************************************************************************)
(* Routing entries (struct aehd_irq_routing_entry).  A zeroed entry with   *)
(* the fields of both members of the union u.                              *)
(***************************************************************************)
\* The host is little-endian (the driver exists for x86 Windows hosts
\* only), where le32_to_cpu converts nothing.
le32_to_cpu(x) == x

IrqchipEntry(irq, irqchip, pin) ==
    [gsi |-> irq, type |-> AEHD_IRQ_ROUTING_IRQCHIP, flags |-> 0,
     irqchip |-> irqchip, pin |-> pin,
     address_lo |-> 0, address_hi |-> 0, data |-> 0]

MsiEntry(virq, msg) ==
    [gsi |-> virq, type |-> AEHD_IRQ_ROUTING_MSI, flags |-> 0,
     irqchip |-> 0, pin |-> 0,
     address_lo |-> msg.address % AddrHalf,
     address_hi |-> msg.address \div AddrHalf,
     data |-> le32_to_cpu(msg.data)]

\* aehd_hash_msi: the lowest byte of data.
aehd_hash_msi(data) == data % 256

\* The buckets of s->msi_hashtab the model keeps: the ones a message of the
\* model hashes to.  The other buckets of the table stay empty for ever.
Buckets == {aehd_hash_msi(m.data) : m \in Messages}

\* find_first_zero_bit finding the highest clear bit instead.
find_last_zero_bit(bitmap, size) ==
    IF \E g \in 0 .. (size - 1) : g \notin bitmap
    THEN CHOOSE g \in 0 .. (size - 1) :
             g \notin bitmap /\ \A h \in (g + 1) .. (size - 1) : h \in bitmap
    ELSE size

\* find_first_zero_bit(bitmap, size): the lowest clear bit, or size.
find_first_zero_bit(bitmap, size) ==
    IF \E g \in 0 .. (size - 1) : g \notin bitmap
    THEN CHOOSE g \in 0 .. (size - 1) :
             g \notin bitmap /\ \A h \in 0 .. (g - 1) : h \in bitmap
    ELSE size

\* set_gsi / clear_gsi
set_gsi(bitmap, gsi) == bitmap \cup {gsi}
clear_gsi(bitmap, gsi) == bitmap \ {gsi}


(***************************************************************************)
(* The routing state the operations below transform:                       *)
(*   routes, nalloc, bitmap, hashtab  as the variables of the same role,   *)
(*   released: the GSIs aehd_arch_release_virq_post was notified of.       *)
(***************************************************************************)
RoutingState ==
    [routes |-> irq_routes, nalloc |-> nr_allocated_irq_routes,
     bitmap |-> used_gsi_bitmap, hashtab |-> msi_hashtab, released |-> <<>>]

Max(a, b) == IF a >= b THEN a ELSE b

\* aehd_add_routing_entry: grow the table when full, append, mark the GSI.
aehd_add_routing_entry(R, entry) ==
    [R EXCEPT
       !.nalloc = IF Len(R.routes) = R.nalloc
                  THEN Max(R.nalloc * 2, MinAllocatedRoutes) ELSE R.nalloc,
       !.routes = Append(R.routes, entry),
       !.bitmap = set_gsi(R.bitmap, entry.gsi)]

\* The loop of aehd_irqchip_release_virq over entries[0 .. nr-1]: an entry
\* of the GSI is overwritten by the last entry and the scan moves on to the
\* next index.  (Sequences are 1-based: entries[i + 1] is C's entries[i].)
RECURSIVE ReleaseLoop(_, _, _, _)
ReleaseLoop(entries, nr, i, virq) ==
    IF i >= nr THEN SubSeq(entries, 1, nr)
    ELSE IF entries[i + 1].gsi = virq
         THEN ReleaseLoop([entries EXCEPT ![i + 1] = entries[nr]],
                          nr - 1, i + 1, virq)
         ELSE ReleaseLoop(entries, nr, i + 1, virq)

\* aehd_irqchip_release_virq leaving the entries of the GSI in the table.
aehd_irqchip_release_virq_keeping_entries(R, virq) ==
    [R EXCEPT
       !.bitmap = clear_gsi(R.bitmap, virq),
       !.released = Append(R.released, virq)]

\* aehd_irqchip_release_virq
aehd_irqchip_release_virq(R, virq) ==
    [R EXCEPT
       !.routes = ReleaseLoop(R.routes, Len(R.routes), 0, virq),
       !.bitmap = clear_gsi(R.bitmap, virq),
       !.released = Append(R.released, virq)]

\* The routes of the cache in the order the flush visits them: bucket by
\* bucket from hash up, each bucket from its head (the empty buckets, which
\* hold nothing to visit, are stepped over at once).
RECURSIVE CachedFrom(_, _)
CachedFrom(hashtab, hash) ==
    LET rest == {h \in DOMAIN hashtab : h >= hash /\ hashtab[h] # <<>>}
    IN IF rest = {} THEN <<>>
       ELSE LET h == CHOOSE x \in rest : \A y \in rest : x <= y
            IN hashtab[h] \o CachedFrom(hashtab, h + 1)

CachedRoutes(hashtab) == CachedFrom(hashtab, 0)

\* The elements of a sequence.
Range(seq) == {seq[i] : i \in DOMAIN seq}

RECURSIVE ReleaseAll(_, _)
ReleaseAll(R, cached) ==
    IF cached = <<>> THEN R
    ELSE ReleaseAll(aehd_irqchip_release_virq(R, Head(cached).gsi),
                    Tail(cached))

\* aehd_flush_dynamic_msi_routes: release every cached route's GSI and
\* empty every bucket.
aehd_flush_dynamic_msi_routes(R) ==
    [ReleaseAll(R, CachedRoutes(R.hashtab)) EXCEPT
       !.hashtab = [h \in Buckets |-> <<>>]]

\* aehd_irqchip_get_virq: the state after the flush (when the table holds
\* gsi_count entries) and the GSI returned.
aehd_irqchip_get_virq(R) ==
    LET F == IF Len(R.routes) = GsiCount
             THEN aehd_flush_dynamic_msi_routes(R) ELSE R
        next_virq == find_first_zero_bit(F.bitmap, GsiCount)
    IN [state |-> F,
        virq |-> IF next_virq >= GsiCount THEN NEG_ENOSPC ELSE next_virq]

\* aehd_lookup_msi_route finding no route whatever the cache holds.
aehd_lookup_msi_route_missing(hashtab, msg) == <<>>

\* aehd_lookup_msi_route: the first route of the message's bucket with the
\* message's address and data, as <<route>>; <<>> for NULL.
aehd_lookup_msi_route(hashtab, msg) ==
    LET bucket == hashtab[aehd_hash_msi(msg.data)]
        match(r) == /\ r.address_lo = msg.address % AddrHalf
                    /\ r.address_hi = msg.address \div AddrHalf
                    /\ r.data = le32_to_cpu(msg.data)
        found == {i \in 1 .. Len(bucket) : match(bucket[i])}
    IN IF found = {} THEN <<>>
       ELSE <<bucket[CHOOSE i \in found : \A j \in found : i <= j]>>

\* aehd_update_routing_entry adding the entry when no entry has its GSI.
aehd_update_routing_entry_adding(routes, new_entry) ==
    IF \E n \in 1 .. Len(routes) : routes[n].gsi = new_entry.gsi
    THEN LET n == CHOOSE k \in 1 .. Len(routes) :
                      /\ routes[k].gsi = new_entry.gsi
                      /\ \A j \in 1 .. (k - 1) : routes[j].gsi # new_entry.gsi
         IN [routes |-> [routes EXCEPT ![n] = new_entry], ret |-> 0]
    ELSE [routes |-> Append(routes, new_entry), ret |-> 0]

\* aehd_update_routing_entry: the first entry of the new entry's GSI is
\* replaced; -ESRCH when there is none.
aehd_update_routing_entry(routes, new_entry) ==
    IF \E n \in 1 .. Len(routes) : routes[n].gsi = new_entry.gsi
    THEN LET n == CHOOSE k \in 1 .. Len(routes) :
                      /\ routes[k].gsi = new_entry.gsi
                      /\ \A j \in 1 .. (k - 1) : routes[j].gsi # new_entry.gsi
         IN [routes |-> [routes EXCEPT ![n] = new_entry], ret |-> 0]
    ELSE [routes |-> routes, ret |-> NEG_ESRCH]


(***************************************************************************)
(* What the last operation on the routing table did:                       *)
(*   op, msg, gsi : the operation and its arguments                        *)
(*   ret          : its result                                             *)
(*   hit          : send_msi found the message in the cache                *)
(*   alloc        : aehd_irqchip_get_virq was called; then virq is what it *)
(*                  returned, at_bitmap the bitmap find_first_zero_bit ran *)
(*                  on, and flushed whether the table held gsi_count       *)
(*                  entries; if it did, precached is the cache before the  *)
(*                  call and at_routes, at_cached the table and the cache  *)
(*                  find_first_zero_bit ran after                          *)
(*   commits      : the number of AEHD_SET_GSI_ROUTING calls               *)
(*   signals      : the GSIs of the AEHD_IRQ_LINE_STATUS calls             *)
(*   released     : the GSIs aehd_arch_release_virq_post was notified of   *)
(*   again        : the operation before it was a send_msi of the same     *)
(*                  message; then prev_hit, prev_commits and prev_signals  *)
(*                  are the hit, commits and signals of that operation     *)
(*   after_release: the operation before it was a release_virq of the GSI  *)
(*                  that get_virq now returned                             *)
(***************************************************************************)
NoOp ==
    [op |-> "none", msg |-> MsgZero, gsi |-> -1, ret |-> 0, hit |-> FALSE,
     alloc |-> FALSE, virq |-> -1, at_bitmap |-> {}, flushed |-> FALSE,
     precached |-> <<>>, at_routes |-> <<>>, at_cached |-> <<>>,
     commits |-> 0, signals |-> <<>>, released |-> <<>>,
     again |-> FALSE, prev_hit |-> FALSE, prev_commits |-> 0,
     prev_signals |-> <<>>, after_release |-> FALSE]

\* The record of an operation that called aehd_irqchip_get_virq on R and
\* got G.
Allocated(rec, R, G) ==
    LET full == (Len(R.routes) = GsiCount)
    IN [rec EXCEPT
          !.alloc = TRUE, !.virq = G.virq,
          !.at_bitmap = G.state.bitmap,
          !.flushed = full,
          !.precached = IF full THEN CachedRoutes(R.hashtab) ELSE <<>>,
          !.at_routes = IF full THEN G.state.routes ELSE <<>>,
          !.at_cached = IF full THEN CachedRoutes(G.state.hashtab) ELSE <<>>,
          !.released = G.state.released,
          !.after_release = /\ irq_last.op = "release_virq"
                            /\ irq_last.gsi = G.virq]

\* The routing variables after an operation that left state R and did rec;
\* an operation that commits does so after its change of the table, and
\* the cache gets no route without a commit.
RoutingBecomes(R, rec) ==
    /\ hv_cached' =
           IF rec.commits > 0
           THEN {r \in Range(CachedRoutes(R.hashtab)) : r \in Range(R.routes)}
           ELSE hv_cached \cap Range(CachedRoutes(R.hashtab))
    /\ UNCHANGED <<mem_vars, vcpu_vars, life_vars, kick_vars>>
    /\ irq_routes' = R.routes
    /\ nr_allocated_irq_routes' = R.nalloc
    /\ used_gsi_bitmap' = R.bitmap
    /\ msi_hashtab' = R.hashtab
    /\ irq_last' = rec

RoutingInit ==
    /\ irq_routes = <<>>
    /\ nr_allocated_irq_routes = 0
    /\ used_gsi_bitmap = {}
    /\ msi_hashtab = [h \in Buckets |-> <<>>]
    /\ shared_gsis = {}
    /\ irq_last = NoOp
    /\ hv_cached = {}

\* abort() and a failed assert() end the process: nothing of its state is
\* left to observe but the reason it ended for.
RoutingAborts(reason) ==
    /\ UNCHANGED <<mem_vars, vcpu_vars, life_vars, kick_vars>>
    /\ crashed' = reason
    /\ irq_routes' = <<>>
    /\ nr_allocated_irq_routes' = 0
    /\ used_gsi_bitmap' = {}
    /\ msi_hashtab' = [h \in Buckets |-> <<>>]
    /\ shared_gsis' = {}
    /\ irq_last' = NoOp
    /\ hv_cached' = {}

AssertCommit == "assert: AEHD_SET_GSI_ROUTING"
AssertPin == "assert: pin < gsi_count"
AbortSetIrq == "abort: aehd_set_irq"

\* aehd_irqchip_add_irq_route(s, irq, irqchip, pin)
AddIrqRoute(irq, irqchip, pin) ==
    /\ crashed = ""
    /\ Len(irq_routes) < MaxRoutes
    /\ LET rec == [NoOp EXCEPT !.op = "add_irq_route", !.gsi = irq]
       IN IF pin < GsiCount
          THEN /\ RoutingBecomes(
                      aehd_add_routing_entry(RoutingState,
                                             IrqchipEntry(irq, irqchip, pin)),
                      rec)
               /\ shared_gsis' =
                      IF \E n \in 1 .. Len(irq_routes) : irq_routes[n].gsi = irq
                      THEN shared_gsis \cup {irq} ELSE shared_gsis
               /\ UNCHANGED crashed
          ELSE RoutingAborts(AssertPin)

\* aehd_irqchip_release_virq(s, virq)
ReleaseVirq(virq) ==
    /\ crashed = ""
    /\ LET R == aehd_irqchip_release_virq(RoutingState, virq)
       IN RoutingBecomes(R, [NoOp EXCEPT !.op = "release_virq", !.gsi = virq,
                                         !.released = R.released])
    /\ UNCHANGED <<shared_gsis, crashed>>

\* The results the hypervisor reports for an AEHD_IRQ_LINE_STATUS call
\* (event.status).
IrqStatus == {1}

\* aehd_irqchip_send_msi(s, msg).  ok_commit and ok_irq say whether the
\* AEHD_SET_GSI_ROUTING and the AEHD_IRQ_LINE_STATUS call succeed, status
\* is the status the latter reports.
SendMsi(msg, ok_commit, ok_irq, status) ==
    /\ crashed = ""
    /\ LET route == aehd_lookup_msi_route(msi_hashtab, msg)
           again == irq_last.op = "send_msi" /\ irq_last.msg = msg
           rec == [NoOp EXCEPT
                     !.op = "send_msi", !.msg = msg, !.again = again,
                     !.prev_hit = again /\ irq_last.hit,
                     !.prev_commits = IF again THEN irq_last.commits ELSE 0,
                     !.prev_signals = IF again THEN irq_last.signals ELSE <<>>]
       IN IF route # <<>>
          THEN \* cache hit: aehd_set_irq(s, route->kroute.gsi, 1)
               /\ ok_commit
               /\ IF ok_irq
                  THEN /\ RoutingBecomes(RoutingState,
                             [rec EXCEPT !.hit = TRUE,
                                         !.signals = <<route[1].gsi>>,
                                         !.ret = status])
                       /\ UNCHANGED <<shared_gsis, crashed>>
                  ELSE RoutingAborts(AbortSetIrq)
          ELSE LET G == aehd_irqchip_get_virq(RoutingState)
                   arec == Allocated(rec, RoutingState, G)
               IN IF G.virq < 0
                  THEN /\ ok_commit /\ ok_irq
                       /\ RoutingBecomes(G.state, [arec EXCEPT !.ret = G.virq])
                       /\ UNCHANGED <<shared_gsis, crashed>>
                  ELSE LET kroute == MsiEntry(G.virq, msg)
                           A == aehd_add_routing_entry(G.state, kroute)
                           hash == aehd_hash_msi(msg.data)
                           C == [A EXCEPT !.hashtab[hash] = Append(@, kroute)]
                       IN /\ Len(G.state.routes) < MaxRoutes
                          /\ IF ~ok_commit
                             THEN ok_irq /\ RoutingAborts(AssertCommit)
                             ELSE IF ~ok_irq
                             THEN RoutingAborts(AbortSetIrq)
                             ELSE /\ RoutingBecomes(C,
                                        [arec EXCEPT
                                           !.commits = 1,
                                           !.signals = <<kroute.gsi>>,
                                           !.ret = status])
                                  /\ UNCHANGED <<shared_gsis, crashed>>

\* aehd_irqchip_add_msi_route(s, vector, dev): msg is the message of the
\* device's vector, or the zero message when dev is NULL.
AddMsiRoute(msg, ok_commit) ==
    /\ crashed = ""
    /\ LET G == aehd_irqchip_get_virq(RoutingState)
           rec == Allocated([NoOp EXCEPT !.op = "add_msi_route", !.msg = msg],
                            RoutingState, G)
       IN IF G.virq < 0
          THEN /\ ok_commit
               /\ RoutingBecomes(G.state, [rec EXCEPT !.ret = G.virq])
               /\ UNCHANGED <<shared_gsis, crashed>>
          ELSE /\ Len(G.state.routes) < MaxRoutes
               /\ IF ok_commit
                  THEN /\ RoutingBecomes(
                             aehd_add_routing_entry(G.state,
                                                    MsiEntry(G.virq, msg)),
                             [rec EXCEPT !.ret = G.virq, !.commits = 1])
                       /\ UNCHANGED <<shared_gsis, crashed>>
                  ELSE RoutingAborts(AssertCommit)

\* aehd_irqchip_commit_routes(s): the whole table goes to the hypervisor,
\* and the call has to succeed.
CommitRoutes(ok_commit) ==
    /\ crashed = ""
    /\ IF ok_commit
       THEN /\ RoutingBecomes(RoutingState,
                              [NoOp EXCEPT !.op = "commit_routes",
                                           !.commits = 1])
            /\ UNCHANGED <<shared_gsis, crashed>>
       ELSE RoutingAborts(AssertCommit)

\* aehd_irqchip_update_msi_route(s, virq, msg, dev)
UpdateMsiRoute(virq, msg) ==
    /\ crashed = ""
    /\ LET U == aehd_update_routing_entry(irq_routes, MsiEntry(virq, msg))
       IN RoutingBecomes([RoutingState EXCEPT !.routes = U.routes],
                         [NoOp EXCEPT !.op = "update_msi_route", !.msg = msg,
                                      !.gsi = virq, !.ret = U.ret])
    /\ UNCHANGED <<shared_gsis, crashed>>

RoutingNext ==
    \/ \E irq \in IrqchipGsis, irqchip \in Irqchips, pin \in Pins :
           AddIrqRoute(irq, irqchip, pin)
    \/ \E virq \in Gsis : ReleaseVirq(virq)
    \/ \E msg \in Messages, ok_commit, ok_irq \in BOOLEAN, status \in IrqStatus :
           SendMsi(msg, ok_commit, ok_irq, status)
    \/ \E msg \in DeviceMessages, ok_commit \in BOOLEAN :
           AddMsiRoute(msg, ok_commit)
    \/ \E virq \in Gsis, msg \in UpdateMessages : UpdateMsiRoute(virq, msg)
    \/ \E ok_commit \in BOOLEAN : CommitRoutes(ok_commit)

(***************************************************************************)
(* Memory slots.                                                           *)
(***************************************************************************)
\* s->nr_slots.
NrSlots == 2
\* qemu_real_host_page_size().
PageSize == 4096

AEHD_MEM_LOG_DIRTY_PAGES == "LOG_DIRTY_PAGES"
AEHD_MEM_READONLY == "READONLY"
NULL == -1

\* The memory regions of the model: RAM, a ROM device (flash) and an MMIO
\* region, with what the callbacks read of each:
\* mr->ram, mr->readonly, mr->rom_device, memory_region_get_ram_ptr(mr) and
\* memory_region_get_ram_addr(mr).
MemoryRegions ==
    [Ram   |-> [ram |-> TRUE,  readonly |-> FALSE, rom_device |-> FALSE,
                ram_ptr |-> 1048576, ram_addr |-> 0],
     Flash |-> [ram |-> FALSE, readonly |-> FALSE, rom_device |-> TRUE,
                ram_ptr |-> 3145728, ram_addr |-> 131072],
     Mmio  |-> [ram |-> FALSE, readonly |-> FALSE, rom_device |-> FALSE,
                ram_ptr |-> 0, ram_addr |-> 0]]

Mrs == DOMAIN MemoryRegions

\* The regions whose dirty-log mask and whose romd_mode change.
LoggedMrs == {"Ram"}
RomDevices == {mr \in Mrs : MemoryRegions[mr].rom_device}

\* The values of a dirty-log mask: no client, one client, two clients.
LogMasks == {0, 1, 3}

\* The MemoryRegionSections the memory core may hand to the listener, with
\* offset_within_address_space, size and offset_within_region.  Low and
\* High are neighbours that meet in the middle of a page; Wide starts in the
\* page Low starts in and overlaps it; Tiny does not reach the next page
\* boundary.  Tiny, Pflash and Regs are three mappings that share a page of
\* the address space, of which the flat view holds one at a time.
MemorySections ==
    [Low   |-> [mr |-> "Ram", offset_within_address_space |-> 0,
                size |-> 8292, offset_within_region |-> 0],
     High  |-> [mr |-> "Ram", offset_within_address_space |-> 8292,
                size |-> 9000, offset_within_region |-> 8292],
     Wide  |-> [mr |-> "Ram", offset_within_address_space |-> 100,
                size |-> 8192, offset_within_region |-> 100],
     Tiny  |-> [mr |-> "Ram", offset_within_address_space |-> 65636,
                size |-> 200, offset_within_region |-> 20580],
     Pflash |-> [mr |-> "Flash", offset_within_address_space |-> 65536,
                size |-> 4096, offset_within_region |-> 0],
     Regs  |-> [mr |-> "Mmio", offset_within_address_space |-> 65536,
                size |-> 8192, offset_within_region |-> 0]]

Sections == DOMAIN MemorySections

\* Two sections of the address space share a guest-physical address.
Overlap(a, b) ==
    LET A == MemorySections[a]
        B == MemorySections[b]
    IN /\ A.offset_within_address_space
              < B.offset_within_address_space + B.size
       /\ B.offset_within_address_space
              < A.offset_within_address_space + A.size

ROUND_UP(n, d) == ((n + d - 1) \div d) * d

\* aehd_align_section rounding the start down and the end up.
aehd_align_section_outwards(section) ==
    LET first == (section.offset_within_address_space \div PageSize) * PageSize
        last == ROUND_UP(section.offset_within_address_space + section.size,
                         PageSize)
    IN [start |-> first, size |-> last - first]

\* aehd_align_section: the start goes up to the next page boundary, the size
\* goes down to whole pages; size 0 when nothing is left.
aehd_align_section(section) ==
    LET size == section.size
        aligned == ROUND_UP(section.offset_within_address_space, PageSize)
        delta == aligned - section.offset_within_address_space
    IN [start |-> aligned,
        size |-> IF delta > size THEN 0
                 ELSE ((size - delta) \div PageSize) * PageSize]

\* A free slot as g_malloc0 leaves it.
FreeSlot == [start_addr |-> 0, memory_size |-> 0, flags |-> {}, ram |-> 0]

SlotIds == 0 .. (NrSlots - 1)

\* What a call of aehd_physical_sync_dirty_bitmap did: whether it was
\* called and for which section, what it returned, the calls to the
\* hypervisor it made and whether the hypervisor refused, the calls to the
\* tracker it made and the pages the tracker marked, and how many times it
\* allocated and freed d.dirty_bitmap.
NoSync ==
    [called |-> FALSE, section |-> "", ret |-> 0, ioctls |-> <<>>,
     refused |-> FALSE, lebitmap |-> <<>>, marked |-> {}, mallocs |-> 0,
     frees |-> 0]

\* aehd_get_free_slot scanning from the end of the table.
aehd_get_last_free_slot(sl) ==
    LET free == {i \in SlotIds : sl[i].memory_size = 0}
    IN IF free = {} THEN NULL
       ELSE CHOOSE i \in free : \A j \in free : i >= j

\* aehd_get_free_slot: the first slot of size 0, or NULL.
aehd_get_free_slot(sl) ==
    LET free == {i \in SlotIds : sl[i].memory_size = 0}
    IN IF free = {} THEN NULL
       ELSE CHOOSE i \in free : \A j \in free : i <= j

\* aehd_lookup_matching_slot comparing the sizes only.
aehd_lookup_slot_of_size(sl, start_addr, size) ==
    LET found == {i \in SlotIds : size = sl[i].memory_size}
    IN IF found = {} THEN NULL
       ELSE CHOOSE i \in found : \A j \in found : i <= j

\* aehd_lookup_matching_slot: the first slot of that start and size, or NULL.
aehd_lookup_matching_slot(sl, start_addr, size) ==
    LET found == {i \in SlotIds : /\ start_addr = sl[i].start_addr
                                  /\ size = sl[i].memory_size}
    IN IF found = {} THEN NULL
       ELSE CHOOSE i \in found : \A j \in found : i <= j

memory_region_is_ram(mr) == MemoryRegions[mr].ram
memory_region_is_romd(mr) == MemoryRegions[mr].rom_device /\ mr_romd[mr]

\* aehd_mem_flags
aehd_mem_flags(mr) ==
    (IF mr_log[mr] # 0 THEN {AEHD_MEM_LOG_DIRTY_PAGES} ELSE {})
    \cup (IF MemoryRegions[mr].readonly \/ memory_region_is_romd(mr)
          THEN {AEHD_MEM_READONLY} ELSE {})

\* One AEHD_SET_USER_MEMORY_REGION call for slot id with the slot's address
\* and flags and the given size.
SetRegionCall(id, slot, size) ==
    [call |-> "AEHD_SET_USER_MEMORY_REGION", slot |-> id,
     guest_phys_addr |-> slot.start_addr, userspace_addr |-> slot.ram,
     flags |-> slot.flags, memory_size |-> size]

\* aehd_set_user_memory_region: the calls it makes for slot id.  A slot of
\* nonzero size with AEHD_MEM_READONLY is first set to size 0.
aehd_set_user_memory_region(id, slot) ==
    (IF slot.memory_size # 0 /\ AEHD_MEM_READONLY \in slot.flags
     THEN <<SetRegionCall(id, slot, 0)>> ELSE <<>>)
    \o <<SetRegionCall(id, slot, slot.memory_size)>>

\* aehd_slot_update_flags calling the hypervisor whether the flags changed or
\* not.
aehd_slot_update_flags_always(sl, mem, mr) ==
    LET slot == [sl[mem] EXCEPT !.flags = aehd_mem_flags(mr)]
    IN [slots |-> [sl EXCEPT ![mem] = slot],
        ioctls |-> aehd_set_user_memory_region(mem, slot)]

\* aehd_slot_update_flags: the slots after it and the calls it makes.
aehd_slot_update_flags(sl, mem, mr) ==
    LET old_flags == sl[mem].flags
        slot == [sl[mem] EXCEPT !.flags = aehd_mem_flags(mr)]
    IN [slots |-> [sl EXCEPT ![mem] = slot],
        ioctls |-> IF slot.flags = old_flags THEN <<>>
                   ELSE aehd_set_user_memory_region(mem, slot)]

\* aehd_section_update_flags: the slot it found (or NULL), the slots after
\* it and the calls it makes.
aehd_section_update_flags(sl, sec) ==
    LET section == MemorySections[sec]
        al == aehd_align_section(section)
        mem == IF al.size = 0 THEN NULL
               ELSE aehd_lookup_matching_slot(sl, al.start, al.size)
    IN IF mem = NULL
       THEN [mem |-> NULL, slots |-> sl, ioctls |-> <<>>, sync |-> NoSync]
       ELSE [mem |-> mem, sync |-> NoSync]
            @@ aehd_slot_update_flags(sl, mem, section.mr)

\* The dirty logs the hypervisor may report for a slot: the sets of indices
\* of the slot's pages.
DirtyLogs(slot) == SUBSET (0 .. (slot.memory_size \div PageSize) - 1)

\* The dirty logs the hypervisor may report for the slot of section sec,
\* which has the size aehd_align_section gives.
Reports(sec) ==
    DirtyLogs([memory_size |-> aehd_align_section(MemorySections[sec]).size])

\* cpu_physical_memory_set_dirty_lebitmap(bitmap, start, pages): the pages
\* of the dirty-page tracker it marks, as page numbers of the ram_addr_t
\* space.  Bit i of the first pages bits stands for the PageSize bytes from
\* start + i * PageSize, and every page these bytes touch is marked.
cpu_physical_memory_set_dirty_lebitmap(bitmap, start, pages) ==
    UNION {{(start + i * PageSize) \div PageSize,
            (start + (i + 1) * PageSize - 1) \div PageSize} :
           i \in {b \in bitmap : b < pages}}

\* aehd_get_dirty_pages_log_range: the call of the tracker it makes for the
\* bitmap of a section.
aehd_get_dirty_pages_log_range(section, bitmap) ==
    [bitmap |-> bitmap,
     start |-> section.offset_within_region
               + MemoryRegions[section.mr].ram_addr,
     pages |-> section.size \div PageSize]

\* aehd_physical_sync_dirty_bitmap leaving the buffer allocated when the
\* hypervisor refuses the request.
aehd_physical_sync_dirty_bitmap_leaking(sl, sec, ok, report) ==
    LET section == MemorySections[sec]
        al == aehd_align_section(section)
        mem == IF al.size = 0 THEN NULL
               ELSE aehd_lookup_matching_slot(sl, al.start, al.size)
        request == <<[call |-> "AEHD_GET_DIRTY_LOG", slot |-> mem]>>
        range == aehd_get_dirty_pages_log_range(section, report)
    IN IF mem = NULL THEN [NoSync EXCEPT !.called = TRUE, !.section = sec]
       ELSE IF ~ok
       THEN [NoSync EXCEPT !.called = TRUE, !.section = sec, !.ret = -1,
                           !.ioctls = request, !.refused = TRUE,
                           !.mallocs = 1, !.frees = 0]
       ELSE [called |-> TRUE, section |-> sec, ret |-> 0, ioctls |-> request,
             refused |-> FALSE, lebitmap |-> <<range>>,
             marked |-> cpu_physical_memory_set_dirty_lebitmap(
                            range.bitmap, range.start, range.pages),
             mallocs |-> 1, frees |-> 1]

\* aehd_physical_sync_dirty_bitmap for section sec with the slots sl; ok
\* says whether AEHD_GET_DIRTY_LOG succeeds and report is the dirty log the
\* hypervisor writes to d.dirty_bitmap.
aehd_physical_sync_dirty_bitmap(sl, sec, ok, report) ==
    LET section == MemorySections[sec]
        al == aehd_align_section(section)
        mem == IF al.size = 0 THEN NULL
               ELSE aehd_lookup_matching_slot(sl, al.start, al.size)
        request == <<[call |-> "AEHD_GET_DIRTY_LOG", slot |-> mem]>>
        range == aehd_get_dirty_pages_log_range(section, report)
    IN IF mem = NULL THEN [NoSync EXCEPT !.called = TRUE, !.section = sec]
       ELSE IF ~ok
       THEN [NoSync EXCEPT !.called = TRUE, !.section = sec, !.ret = -1,
                           !.ioctls = request, !.refused = TRUE,
                           !.mallocs = 1, !.frees = 1]
       ELSE [called |-> TRUE, section |-> sec, ret |-> 0, ioctls |-> request,
             refused |-> FALSE, lebitmap |-> <<range>>,
             marked |-> cpu_physical_memory_set_dirty_lebitmap(
                            range.bitmap, range.start, range.pages),
             mallocs |-> 1, frees |-> 1]

\* The removal of slot mem by aehd_set_phys_mem without a look at its dirty
\* log.
sync_before_unregister_never(sl, mem, sec, ok_log, report) == NoSync

\* aehd_set_phys_mem about to unregister slot mem: a slot with
\* AEHD_MEM_LOG_DIRTY_PAGES has its dirty log synchronized while it still has
\* its size.
sync_before_unregister(sl, mem, sec, ok_log, report) ==
    IF AEHD_MEM_LOG_DIRTY_PAGES \in sl[mem].flags
    THEN aehd_physical_sync_dirty_bitmap(sl, sec, ok_log, report)
    ELSE NoSync

\* What aehd_set_phys_mem does to the slots sl for section sec: the slot it
\* registered or unregistered (NULL when none), the slots after it, the
\* calls it makes, the synchronization of the dirty log it makes, and
\* whether it finds no free slot.  ok_log and report are the outcome of
\* AEHD_GET_DIRTY_LOG should it be called.
aehd_set_phys_mem(sl, sec, add, ok_log, report) ==
    LET section == MemorySections[sec]
        mr == section.mr
        writeable == /\ ~MemoryRegions[mr].readonly
                     /\ ~MemoryRegions[mr].rom_device
        really_add == IF ~memory_region_is_ram(mr) /\ ~mr_romd[mr]
                      THEN FALSE ELSE add
        al == aehd_align_section(section)
        ram == MemoryRegions[mr].ram_ptr + section.offset_within_region
               + (al.start - section.offset_within_address_space)
        nothing == [mem |-> NULL, slots |-> sl, ioctls |-> <<>>,
                    sync |-> NoSync, registered |-> FALSE, full |-> FALSE]
    IN IF ~memory_region_is_ram(mr) /\ writeable THEN nothing
       ELSE IF al.size = 0 THEN nothing
       ELSE IF ~really_add
       THEN LET mem == aehd_lookup_matching_slot(sl, al.start, al.size)
            IN IF mem = NULL THEN nothing
               ELSE LET sync == sync_before_unregister(sl, mem, sec,
                                                        ok_log, report)
                        slot == [sl[mem] EXCEPT !.memory_size = 0]
                    IN [mem |-> mem,
                        slots |-> [sl EXCEPT ![mem] = slot],
                        ioctls |-> sync.ioctls
                                   \o aehd_set_user_memory_region(mem, slot),
                        sync |-> sync,
                        registered |-> FALSE, full |-> FALSE]
       ELSE LET mem == aehd_get_free_slot(sl)
            IN IF mem = NULL THEN [nothing EXCEPT !.full = TRUE]
               ELSE LET slot == [start_addr |-> al.start,
                                 memory_size |-> al.size,
                                 flags |-> aehd_mem_flags(mr),
                                 ram |-> ram]
                    IN [mem |-> mem,
                        slots |-> [sl EXCEPT ![mem] = slot],
                        ioctls |-> aehd_set_user_memory_region(mem, slot),
                        sync |-> NoSync,
                        registered |-> TRUE, full |-> FALSE]

\* What the last listener callback did: the callback, the slot it worked on
\* (NULL when none) and the section that slot is for, what the slot was
\* before a change of its flags or its removal, the calls to the hypervisor
\* the callback made, in order, and the synchronization of the dirty log it
\* made.
NoMemOp ==
    [op |-> "none", section |-> "", mem |-> NULL, before |-> FreeSlot,
     ioctls |-> <<>>, sync |-> NoSync]

MemoryInit ==
    /\ slots = [i \in SlotIds |-> FreeSlot]
    /\ present = {}
    /\ mr_log = [mr \in Mrs |-> 0]
    /\ mr_romd = [mr \in Mrs |-> FALSE]
    /\ slot_of = [sec \in Sections |-> NULL]
    /\ mem_last = NoMemOp

\* abort() ends the process: nothing of its state is left to observe but the
\* reason it ended for.
MemoryAborts(reason) ==
    /\ UNCHANGED <<irq_vars, vcpu_vars, life_vars, kick_vars>>
    /\ crashed' = reason
    /\ slots' = [i \in SlotIds |-> FreeSlot]
    /\ present' = {}
    /\ mr_log' = [mr \in Mrs |-> 0]
    /\ mr_romd' = [mr \in Mrs |-> FALSE]
    /\ slot_of' = [sec \in Sections |-> NULL]
    /\ mem_last' = NoMemOp

AbortNoFreeSlot == "abort: no free slot available"
AbortRegister == "abort: error registering slot"
AbortUnregister == "abort: error unregistering overlapping slot"
AbortLogChange == "abort: dirty pages log change"

\* The callback op on section sec did P (a result of aehd_set_phys_mem or of
\* aehd_section_update_flags).
MemoryBecomes(op, sec, P) ==
    /\ UNCHANGED <<irq_vars, vcpu_vars, life_vars, kick_vars>>
    /\ slots' = P.slots
    /\ mem_last' = [op |-> op,
                    section |-> IF P.mem = NULL THEN "" ELSE sec,
                    mem |-> P.mem,
                    before |-> IF P.mem # NULL /\ op # "region_add"
                               THEN slots[P.mem] ELSE FreeSlot,
                    ioctls |-> P.ioctls,
                    sync |-> P.sync]
    /\ UNCHANGED crashed

\* aehd_region_add(listener, section): the memory core adds to the flat view
\* a section that overlaps no section of it.  ok says whether the last
\* AEHD_SET_USER_MEMORY_REGION call succeeds.
RegionAdd(sec, ok) ==
    /\ crashed = ""
    /\ sec \notin present
    /\ \A other \in present : ~Overlap(sec, other)
    /\ LET P == aehd_set_phys_mem(slots, sec, TRUE, TRUE, {})
       IN IF P.full THEN MemoryAborts(AbortNoFreeSlot)
          ELSE IF P.ioctls # <<>> /\ ~ok
          THEN MemoryAborts(IF P.registered THEN AbortRegister
                            ELSE AbortUnregister)
          ELSE /\ P.ioctls = <<>> => ok
               /\ MemoryBecomes("region_add", sec, P)
               /\ present' = present \cup {sec}
               /\ slot_of' = [slot_of EXCEPT
                                ![sec] = IF P.registered THEN P.mem ELSE NULL]
               /\ UNCHANGED <<mr_log, mr_romd>>

\* aehd_region_del(listener, section): the memory core removes a section of
\* the flat view.  ok_log says whether AEHD_GET_DIRTY_LOG succeeds, should it
\* be called, and report is the dirty log it then gives; ok says whether the
\* last AEHD_SET_USER_MEMORY_REGION call succeeds.
RegionDel(sec, ok, ok_log, report) ==
    /\ crashed = ""
    /\ sec \in present
    /\ ok_log \/ report = {}
    /\ LET P == aehd_set_phys_mem(slots, sec, FALSE, ok_log, report)
       IN /\ P.ioctls = <<>> => ok
          /\ P.sync.ioctls = <<>> => ok_log
          /\ P.sync.lebitmap = <<>> => report = {}
          /\ P.mem # NULL => report \in DirtyLogs(slots[P.mem])
          /\ IF ~ok THEN MemoryAborts(AbortUnregister)
             ELSE
               /\ MemoryBecomes("region_del", sec, P)
               /\ present' = present \ {sec}
               /\ slot_of' = [slot_of EXCEPT ![sec] = NULL]
               /\ UNCHANGED <<mr_log, mr_romd>>

\* The callback op, which is log_start or log_stop, with the masks old and
\* new, of which skip makes it return at once.
LogChange(op, sec, skip, ok) ==
    LET P == IF skip THEN [mem |-> NULL, slots |-> slots, ioctls |-> <<>>,
                           sync |-> NoSync]
             ELSE aehd_section_update_flags(slots, sec)
    IN IF P.ioctls # <<>> /\ ~ok
       THEN MemoryAborts(AbortLogChange)
       ELSE /\ P.ioctls = <<>> => ok
            /\ MemoryBecomes(op, sec, P)
            /\ UNCHANGED <<present, mr_log, mr_romd, slot_of>>

\* aehd_log_start(listener, section, old, new): the memory core tells of
\* clients added to the log mask of a section of the flat view; new is the
\* mask of the section's region.
LogStart(sec, old, ok) ==
    /\ crashed = ""
    /\ sec \in present
    /\ old < mr_log[MemorySections[sec].mr]
    /\ LogChange("log_start", sec, old # 0, ok)

\* aehd_log_stop(listener, section, old, new): the memory core tells of
\* clients removed from the log mask of a section of the flat view; new is
\* the mask of the section's region.
LogStop(sec, old, ok) ==
    /\ crashed = ""
    /\ sec \in present
    /\ old > mr_log[MemorySections[sec].mr]
    /\ LogChange("log_stop", sec, mr_log[MemorySections[sec].mr] # 0, ok)

AbortLogSync == "abort: sync dirty bitmap"

\* aehd_log_sync(listener, section): the memory core asks for the dirty log
\* of a section of the flat view.  ok says whether AEHD_GET_DIRTY_LOG
\* succeeds and report is the dirty log it then gives.
LogSync(sec, ok, report) ==
    /\ crashed = ""
    /\ sec \in present
    /\ ok \/ report = {}
    /\ LET sync == aehd_physical_sync_dirty_bitmap(slots, sec, ok, report)
           mem == IF sync.ioctls = <<>> THEN NULL ELSE sync.ioctls[1].slot
       IN /\ sync.ioctls = <<>> => ok
          /\ sync.lebitmap = <<>> => report = {}
          /\ mem # NULL => report \in DirtyLogs(slots[mem])
          /\ IF sync.ret < 0 THEN MemoryAborts(AbortLogSync)
             ELSE
               /\ MemoryBecomes("log_sync", sec,
                                [mem |-> mem, slots |-> slots,
                                 ioctls |-> sync.ioctls, sync |-> sync])
               /\ UNCHANGED <<present, mr_log, mr_romd, slot_of>>

\* A client is added to or removed from the dirty-log mask of a region.
SetLogMask(mr, mask) ==
    /\ crashed = ""
    /\ mask # mr_log[mr]
    /\ mr_log' = [mr_log EXCEPT ![mr] = mask]
    /\ mem_last' = NoMemOp
    /\ UNCHANGED <<slots, present, mr_romd, slot_of, crashed>>
    /\ UNCHANGED <<irq_vars, vcpu_vars, life_vars, kick_vars>>

\* A ROM device no section of which is in the flat view is switched between
\* ROMD mode and MMIO mode.
SetRomdMode(mr, romd_mode) ==
    /\ crashed = ""
    /\ romd_mode # mr_romd[mr]
    /\ \A sec \in present : MemorySections[sec].mr # mr
    /\ mr_romd' = [mr_romd EXCEPT ![mr] = romd_mode]
    /\ mem_last' = NoMemOp
    /\ UNCHANGED <<slots, present, mr_log, slot_of, crashed>>
    /\ UNCHANGED <<irq_vars, vcpu_vars, life_vars, kick_vars>>

(***************************************************************************)
(* One vCPU: its registers, its dirty flag and its run loop.               *)
(***************************************************************************)
\* The values of the register state are 0 .. MaxReg.
MaxReg == 1
RegValues == 0 .. MaxReg
\* No more than MaxWork callbacks wait for the vCPU thread at a time.
MaxWork == 1

EXCP_INTERRUPT == 65536
EXCP_HLT == 65537

\* What a run call may come back with: an exit reason (for a system event,
\* its type; AEHD_SYSTEM_EVENT_other is a type aehd_cpu_exec has no case
\* for, AEHD_EXIT_other an exit reason it has no case for), or a negative
\* result of the call itself.
ExitReasons ==
    {"AEHD_EXIT_IO", "AEHD_EXIT_MMIO", "AEHD_EXIT_IRQ_WINDOW_OPEN",
     "AEHD_EXIT_INTR", "AEHD_EXIT_SHUTDOWN", "AEHD_EXIT_UNKNOWN",
     "AEHD_EXIT_INTERNAL_ERROR", "AEHD_EXIT_other"}

SystemEvents ==
    {"AEHD_SYSTEM_EVENT_SHUTDOWN", "AEHD_SYSTEM_EVENT_RESET",
     "AEHD_SYSTEM_EVENT_CRASH", "AEHD_SYSTEM_EVENT_other"}

\* The negative results of the run call are those of aehd_vcpu_ioctl.
RunErrors ==
    {ErrnoName(aehd_vcpu_ioctl(io)) : io \in {r \in IoResults : ~r.ok}}

RunOutcomes == ExitReasons \cup SystemEvents \cup RunErrors

\* run->io.count is 0 .. MaxIoCount, and run->io.size one of IoSizes.
MaxIoCount == 2
IoSizes == {1, 2}

\* run->internal.suberror: emulation failure, or another.
AEHD_INTERNAL_ERROR_EMULATION == 1
Suberrors == {AEHD_INTERNAL_ERROR_EMULATION, 2}

\* The fields of struct aehd_run that go with an exit reason; NoRun when
\* the reason has none, and before the first run call.
NoRun == [io_size |-> 0, io_count |-> 0, suberror |-> 0]

ExitData(outcome) ==
    CASE outcome = "AEHD_EXIT_IO" ->
             {[NoRun EXCEPT !.io_size = size, !.io_count = count] :
                  size \in IoSizes, count \in 0 .. MaxIoCount}
      [] outcome = "AEHD_EXIT_INTERNAL_ERROR" ->
             {[NoRun EXCEPT !.suberror = e] : e \in Suberrors}
      [] OTHER -> {NoRun}

\* What aehd_arch_handle_exit may return.
ArchResults == {-1, 0, EXCP_INTERRUPT}

\* The callbacks scheduled on the vCPU thread.
WorkKinds ==
    {"synchronize_state", "synchronize_post_reset", "synchronize_post_init",
     "synchronize_pre_loadvm"}

\* The registers of a vCPU: the emulator's copy, the hypervisor's copy, the
\* dirty flag, and whether the emulator's copy holds a change the
\* hypervisor has not been given.
Registers ==
    [vcpu_dirty |-> vcpu_dirty, emu |-> emu_regs, hv |-> hv_regs,
     unpushed |-> unpushed, pulls |-> 0, pushes |-> 0, level |-> ""]

\* The levels of state aehd_arch_put_registers is asked to push.
AEHD_PUT_RUNTIME_STATE == "AEHD_PUT_RUNTIME_STATE"
AEHD_PUT_RESET_STATE == "AEHD_PUT_RESET_STATE"
AEHD_PUT_FULL_STATE == "AEHD_PUT_FULL_STATE"

\* aehd_arch_get_registers: the emulator's copy becomes the hypervisor's.
aehd_arch_get_registers(C) ==
    [C EXCEPT !.emu = C.hv, !.unpushed = FALSE, !.pulls = @ + 1]

\* aehd_arch_put_registers(cpu, level): the hypervisor's copy becomes the
\* emulator's.
aehd_arch_put_registers(C, level) ==
    [C EXCEPT !.hv = C.emu, !.unpushed = FALSE, !.pushes = @ + 1,
              !.level = level]

\* do_aehd_cpu_synchronize_state pulling without marking the vCPU dirty.
do_aehd_cpu_synchronize_state_leaving_clean(C) ==
    IF ~C.vcpu_dirty THEN aehd_arch_get_registers(C) ELSE C

\* do_aehd_cpu_synchronize_state
do_aehd_cpu_synchronize_state(C) ==
    IF ~C.vcpu_dirty
    THEN [aehd_arch_get_registers(C) EXCEPT !.vcpu_dirty = TRUE]
    ELSE C

\* do_aehd_cpu_synchronize_post_reset and do_aehd_cpu_synchronize_post_init
do_aehd_cpu_synchronize_post_reset(C) ==
    [aehd_arch_put_registers(C, AEHD_PUT_RESET_STATE)
         EXCEPT !.vcpu_dirty = FALSE]

do_aehd_cpu_synchronize_post_init(C) ==
    [aehd_arch_put_registers(C, AEHD_PUT_FULL_STATE)
         EXCEPT !.vcpu_dirty = FALSE]

\* do_aehd_cpu_synchronize_pre_loadvm pulling the registers first, as
\* do_aehd_cpu_synchronize_state does.
do_aehd_cpu_synchronize_pre_loadvm_pulling(C) ==
    [aehd_arch_get_registers(C) EXCEPT !.vcpu_dirty = TRUE]

\* do_aehd_cpu_synchronize_pre_loadvm
do_aehd_cpu_synchronize_pre_loadvm(C) == [C EXCEPT !.vcpu_dirty = TRUE]

\* The top of the loop of aehd_cpu_exec going on to the run call without
\* looking at the dirty flag.
put_registers_never(C) == C

\* The top of the loop of aehd_cpu_exec: a dirty vCPU is pushed and marked
\* clean.
put_registers_if_dirty(C) ==
    IF C.vcpu_dirty
    THEN [aehd_arch_put_registers(C, AEHD_PUT_RUNTIME_STATE)
              EXCEPT !.vcpu_dirty = FALSE]
    ELSE C

\* A call made by aehd_cpu_exec, with what tells it from the other calls of
\* the function (for a port access, the offset of its data in the buffer;
\* for a hook whose result is used, the result).
Call(fn, arg) == [fn |-> fn, arg |-> arg]

\* What a case of the loop of aehd_cpu_exec comes to: ret, the calls it
\* made, and the registers after them.
Result(ret, calls, C) == [ret |-> ret, calls |-> calls, regs |-> C]

\* Every negative result of the run call taken as fatal.
run_failed_always_fatal(outcome, C) == Result(-1, <<>>, C)

\* The run call came back negative: -EINTR and -EAGAIN give
\* EXCP_INTERRUPT, any other error -1.
run_failed(outcome, C) ==
    IF outcome \in {"EINTR", "EAGAIN"}
    THEN Result(EXCP_INTERRUPT, <<>>, C)
    ELSE Result(-1, <<>>, C)

\* aehd_handle_io making one access whatever the count.
aehd_handle_io_once(size, count) ==
    <<Call("address_space_rw", 0)>>

\* aehd_handle_io: count accesses of size bytes, the pointer moving on by
\* size after each.
aehd_handle_io(size, count) ==
    [i \in 1 .. count |-> Call("address_space_rw", (i - 1) * size)]

\* case AEHD_EXIT_IO
exit_io(R, C) == Result(0, aehd_handle_io(R.io_size, R.io_count), C)

\* case AEHD_EXIT_MMIO
exit_mmio(C) == Result(0, <<Call("address_space_rw", 0)>>, C)

\* AEHD_EXIT_IRQ_WINDOW_OPEN and AEHD_EXIT_INTR going round the loop.
exit_interrupt_looping(C) == Result(0, <<>>, C)

\* case AEHD_EXIT_IRQ_WINDOW_OPEN and case AEHD_EXIT_INTR
exit_interrupt(C) == Result(EXCP_INTERRUPT, <<>>, C)

\* case AEHD_EXIT_SHUTDOWN
exit_shutdown(C) ==
    Result(EXCP_INTERRUPT, <<Call("qemu_system_reset_request", 0)>>, C)

\* case AEHD_EXIT_UNKNOWN
exit_unknown(C) == Result(-1, <<>>, C)

\* aehd_handle_internal_error returning EXCP_HLT for an emulation failure
\* the hook does not stop on.
aehd_handle_internal_error_halting(suberror, stop, C) ==
    IF suberror = AEHD_INTERNAL_ERROR_EMULATION
    THEN IF ~stop
         THEN Result(EXCP_HLT,
                     <<Call("aehd_arch_stop_on_emulation_error", 0),
                       Call("cpu_dump_state", 0)>>, C)
         ELSE Result(-1, <<Call("aehd_arch_stop_on_emulation_error", 1)>>, C)
    ELSE Result(-1, <<>>, C)

\* aehd_handle_internal_error; stop is what
\* aehd_arch_stop_on_emulation_error returns.
aehd_handle_internal_error(suberror, stop, C) ==
    IF suberror = AEHD_INTERNAL_ERROR_EMULATION
    THEN IF ~stop
         THEN Result(EXCP_INTERRUPT,
                     <<Call("aehd_arch_stop_on_emulation_error", 0),
                       Call("cpu_dump_state", 0)>>, C)
         ELSE Result(-1, <<Call("aehd_arch_stop_on_emulation_error", 1)>>, C)
    ELSE Result(-1, <<>>, C)

\* The default cases going round the loop whatever aehd_arch_handle_exit
\* returns.
exit_default_looping(arch_ret, C) ==
    Result(0, <<Call("aehd_arch_handle_exit", arch_ret)>>, C)

\* The default cases: ret is what aehd_arch_handle_exit returns.
exit_default(arch_ret, C) ==
    Result(arch_ret, <<Call("aehd_arch_handle_exit", arch_ret)>>, C)

\* AEHD_SYSTEM_EVENT_CRASH leaving the loop after the panic report.
system_event_crash_returning(C) ==
    Result(EXCP_INTERRUPT,
           (IF ~C.vcpu_dirty THEN <<Call("aehd_arch_get_registers", 0)>>
            ELSE <<>>)
               \o <<Call("qemu_mutex_lock_iothread", 0),
                    Call("qemu_system_guest_panicked", 0),
                    Call("qemu_mutex_unlock_iothread", 0)>>,
           do_aehd_cpu_synchronize_state(C))

\* AEHD_SYSTEM_EVENT_CRASH reporting the panic without the iothread lock.
system_event_crash_unlocked(C) ==
    Result(0,
           (IF ~C.vcpu_dirty THEN <<Call("aehd_arch_get_registers", 0)>>
            ELSE <<>>)
               \o <<Call("qemu_system_guest_panicked", 0)>>,
           do_aehd_cpu_synchronize_state(C))

\* case AEHD_SYSTEM_EVENT_CRASH: aehd_cpu_synchronize_state, which on the
\* vCPU's own thread calls the callback at once when the vCPU is not dirty,
\* and the panic report under the iothread lock.
system_event_crash(C) ==
    Result(0,
           (IF ~C.vcpu_dirty THEN <<Call("aehd_arch_get_registers", 0)>>
            ELSE <<>>)
               \o <<Call("qemu_mutex_lock_iothread", 0),
                    Call("qemu_system_guest_panicked", 0),
                    Call("qemu_mutex_unlock_iothread", 0)>>,
           do_aehd_cpu_synchronize_state(C))

\* The switch on run->system_event.type answering every type with a reset
\* request.
system_event_always_resetting(type, arch_ret, C) ==
    Result(EXCP_INTERRUPT, <<Call("qemu_system_reset_request", 0)>>, C)

\* case AEHD_EXIT_SYSTEM_EVENT: the switch on run->system_event.type.
system_event(type, arch_ret, C) ==
    CASE type = "AEHD_SYSTEM_EVENT_SHUTDOWN" ->
             Result(EXCP_INTERRUPT,
                    <<Call("qemu_system_shutdown_request", 0)>>, C)
      [] type = "AEHD_SYSTEM_EVENT_RESET" ->
             Result(EXCP_INTERRUPT,
                    <<Call("qemu_system_reset_request", 0)>>, C)
      [] type = "AEHD_SYSTEM_EVENT_CRASH" -> system_event_crash(C)
      [] OTHER -> exit_default(arch_ret, C)

\* One iteration of the loop of aehd_cpu_exec after the run call came back
\* with outcome and R: the test of run_ret and the switch on
\* run->exit_reason.  stop and arch_ret are what the hooks return when
\* they are called.
dispatch_exit(outcome, R, stop, arch_ret, C) ==
    CASE outcome \in RunErrors -> run_failed(outcome, C)
      [] outcome = "AEHD_EXIT_IO" -> exit_io(R, C)
      [] outcome = "AEHD_EXIT_MMIO" -> exit_mmio(C)
      [] outcome \in {"AEHD_EXIT_IRQ_WINDOW_OPEN", "AEHD_EXIT_INTR"} ->
             exit_interrupt(C)
      [] outcome = "AEHD_EXIT_SHUTDOWN" -> exit_shutdown(C)
      [] outcome = "AEHD_EXIT_UNKNOWN" -> exit_unknown(C)
      [] outcome = "AEHD_EXIT_INTERNAL_ERROR" ->
             aehd_handle_internal_error(R.suberror, stop, C)
      [] outcome \in SystemEvents -> system_event(outcome, arch_ret, C)
      [] OTHER -> exit_default(arch_ret, C)

\* The hooks an iteration calls: stop is FALSE and arch_ret 0 for the
\* iterations that do not ask them.
HookAsked(outcome, R, stop, arch_ret) ==
    /\ stop => /\ outcome = "AEHD_EXIT_INTERNAL_ERROR"
               /\ R.suberror = AEHD_INTERNAL_ERROR_EMULATION
    /\ arch_ret # 0 =>
           outcome \in {"AEHD_EXIT_other", "AEHD_SYSTEM_EVENT_other"}

\* The end of aehd_cpu_exec stopping the virtual machine for every ret but
\* 0.
exec_exit_stopping_on_nonzero(ret) ==
    <<Call("qemu_mutex_lock_iothread", 0)>>
        \o (IF ret # 0
            THEN <<Call("cpu_dump_state", 0), Call("vm_stop", 0)>>
            ELSE <<>>)

\* The end of aehd_cpu_exec: the lock is taken, and a negative ret dumps
\* the CPU state and stops the virtual machine.
exec_exit(ret) ==
    <<Call("qemu_mutex_lock_iothread", 0)>>
        \o (IF ret < 0
            THEN <<Call("cpu_dump_state", 0), Call("vm_stop", 0)>>
            ELSE <<>>)

\* What the last operation on the vCPU did: a synchronize_* call that has
\* returned (the value of the dirty flag it went by, which its caller read
\* when it returned at once and its callback read otherwise; the number of
\* register pulls and pushes it made; and whether the operation before it
\* was a synchronize_state call, with the pulls of that one; the level of
\* state it pushed, the synchronize_* call that came right before it, and
\* the dirty flag it left; read_on, the thread on which the entry point
\* read the dirty flag, and ran_on, the thread on which its callback ran,
\* each "" when there was none), or a step of aehd_cpu_exec (io: the step
\* made the port or memory access of an IO or MMIO exit; io_locked: the
\* vCPU thread held the iothread lock for it; io_interleaved: another
\* thread held the lock meanwhile).
NoVcpuOp ==
    [op |-> "none", observed |-> FALSE, pulls |-> 0, pushes |-> 0,
     again |-> FALSE, prev_pulls |-> 0, level |-> "", prev |-> "",
     dirty |-> FALSE, read_on |-> "", ran_on |-> "",
     io |-> FALSE, io_locked |-> FALSE, io_interleaved |-> FALSE]

ExecOp == [NoVcpuOp EXCEPT !.op = "exec"]

Returned(kind, observed, C) ==
    LET again == vcpu_last.op = "synchronize_state"
    IN [op |-> kind, observed |-> observed, pulls |-> C.pulls,
        pushes |-> C.pushes, again |-> again,
        prev_pulls |-> IF again THEN vcpu_last.pulls ELSE 0,
        level |-> C.level,
        prev |-> IF vcpu_last.op \in WorkKinds THEN vcpu_last.op ELSE "",
        dirty |-> C.vcpu_dirty, read_on |-> "", ran_on |-> "",
        io |-> FALSE, io_locked |-> FALSE, io_interleaved |-> FALSE]

\* The threads: the one that drives the vCPU, and any other, from which the
\* synchronize_* entry points are called.
VcpuThread == "vcpu"
OtherThread == "other"

\* The callback of a synchronize_* entry point.
run_callback(kind, C) ==
    CASE kind = "synchronize_state" -> do_aehd_cpu_synchronize_state(C)
      [] kind = "synchronize_post_reset" ->
             do_aehd_cpu_synchronize_post_reset(C)
      [] kind = "synchronize_post_init" ->
             do_aehd_cpu_synchronize_post_init(C)
      [] kind = "synchronize_pre_loadvm" ->
             do_aehd_cpu_synchronize_pre_loadvm(C)

\* Before any aehd_raise_event: had_run says whether the CPUState had a run
\* structure, at is where its thread was in aehd_cpu_exec, kicks are the
\* results of the AEHD_KICK_VCPU calls made.
NoKick == [called |-> FALSE, had_run |-> FALSE, at |-> "", kicks |-> <<>>]

\* aehd_raise_event without the test of cpu->aehd_run.
aehd_raise_event_untested(has_run, pending, io) ==
    [user_event_pending |-> TRUE, kicks |-> <<aehd_vm_ioctl(io)>>]

\* aehd_raise_event(cpu): has_run says whether cpu->aehd_run is set, pending
\* is run->user_event_pending and io what AEHD_KICK_VCPU comes to, which is
\* not looked at.
aehd_raise_event(has_run, pending, io) ==
    IF ~has_run THEN [user_event_pending |-> pending, kicks |-> <<>>]
    ELSE [user_event_pending |-> TRUE, kicks |-> <<aehd_vm_ioctl(io)>>]

\* After aehd_init_vcpu: the emulator holds the initial register state, and
\* the vCPU is dirty.
VcpuInit ==
    /\ user_event_pending = FALSE
    /\ kick_pending = FALSE
    /\ kick_last = NoKick
    /\ vcpu_dirty = TRUE
    /\ emu_regs = 0
    /\ hv_regs = 0
    /\ unpushed = TRUE
    /\ pc = "idle"
    /\ iothread_locked = TRUE
    /\ exit_request = FALSE
    /\ run_outcome = ""
    /\ aehd_run = NoRun
    /\ exec_log = <<>>
    /\ exec_ret = 0
    /\ work = <<>>
    /\ vcpu_last = NoVcpuOp
    /\ other_in_lock = FALSE

\* The registers and the dirty flag become those of C.
RegistersBecome(C) ==
    /\ vcpu_dirty' = C.vcpu_dirty
    /\ emu_regs' = C.emu
    /\ hv_regs' = C.hv
    /\ unpushed' = C.unpushed

\* The emulator changes its copy of the registers: between two runs, and
\* while its copy is the valid one.
EmulatorWrite(v) ==
    /\ crashed = ""
    /\ pc = "idle"
    /\ vcpu_dirty
    /\ v # emu_regs
    /\ emu_regs' = v
    /\ unpushed' = TRUE
    /\ UNCHANGED <<vcpu_dirty, hv_regs, pc, iothread_locked, exit_request,
                   run_outcome, exec_ret, work, vcpu_last>>
    /\ UNCHANGED <<aehd_run, exec_log>>
    /\ UNCHANGED <<irq_vars, mem_vars, life_vars, kick_vars, crashed, other_in_lock>>

\* run_on_cpu(cpu, func, data) called from another thread: the callback is
\* queued for the vCPU thread.
run_on_cpu(kind) ==
    /\ Len(work) < MaxWork
    /\ work' = Append(work, kind)

\* aehd_cpu_synchronize_state(cpu), called from another thread: seen is the
\* value of cpu->vcpu_dirty the caller reads, which is any value while the
\* vCPU thread is in aehd_cpu_exec and changes the flag without the lock.
SynchronizeState(seen) ==
    /\ crashed = ""
    /\ pc = "idle" => seen = vcpu_dirty
    /\ IF seen
       THEN /\ vcpu_last' =
                   [Returned("synchronize_state", seen,
                             [Registers EXCEPT !.vcpu_dirty = seen])
                        EXCEPT !.read_on = OtherThread]
            /\ UNCHANGED work
       ELSE /\ run_on_cpu("synchronize_state")
            /\ UNCHANGED vcpu_last
    /\ UNCHANGED <<vcpu_dirty, emu_regs, hv_regs, unpushed, pc,
                   iothread_locked, exit_request, run_outcome, exec_ret>>
    /\ UNCHANGED <<aehd_run, exec_log>>
    /\ UNCHANGED <<irq_vars, mem_vars, life_vars, kick_vars, crashed, other_in_lock>>

\* An entry point that calls its callback itself, on the thread it is
\* called from, instead of handing it to run_on_cpu.
Schedule_calling_directly(kind) ==
    /\ crashed = ""
    /\ pc = "idle"
    /\ LET C == run_callback(kind, Registers)
       IN /\ RegistersBecome(C)
          /\ vcpu_last' = [Returned(kind, vcpu_dirty, C)
                               EXCEPT !.ran_on = OtherThread]
    /\ UNCHANGED <<pc, iothread_locked, exit_request, run_outcome, exec_ret,
                   work>>
    /\ UNCHANGED <<aehd_run, exec_log>>
    /\ UNCHANGED <<irq_vars, mem_vars, life_vars, kick_vars, crashed, other_in_lock>>

\* aehd_cpu_synchronize_post_reset, aehd_cpu_synchronize_post_init and
\* aehd_cpu_synchronize_pre_loadvm, called from another thread.
Schedule(kind) ==
    /\ crashed = ""
    /\ run_on_cpu(kind)
    /\ UNCHANGED <<vcpu_dirty, emu_regs, hv_regs, unpushed, pc,
                   iothread_locked, exit_request, run_outcome, exec_ret,
                   vcpu_last>>
    /\ UNCHANGED <<aehd_run, exec_log>>
    /\ UNCHANGED <<irq_vars, mem_vars, life_vars, kick_vars, crashed, other_in_lock>>

SynchronizePostReset == Schedule("synchronize_post_reset")
SynchronizePostInit == Schedule("synchronize_post_init")
SynchronizePreLoadvm == Schedule("synchronize_pre_loadvm")

\* The vCPU thread, outside aehd_cpu_exec, runs the callback at the head of
\* its queue, whose caller then returns.
RunQueuedWork ==
    /\ crashed = ""
    /\ pc = "idle"
    /\ work # <<>>
    /\ LET kind == Head(work)
           C == run_callback(kind, Registers)
       IN /\ RegistersBecome(C)
          /\ vcpu_last' =
                 [Returned(kind, vcpu_dirty, C)
                      EXCEPT !.ran_on = VcpuThread,
                             !.read_on = IF kind = "synchronize_state"
                                         THEN OtherThread ELSE ""]
    /\ work' = Tail(work)
    /\ UNCHANGED <<pc, iothread_locked, exit_request, run_outcome, exec_ret>>
    /\ UNCHANGED <<aehd_run, exec_log>>
    /\ UNCHANGED <<irq_vars, mem_vars, life_vars, kick_vars, crashed, other_in_lock>>

\* cpu_exit(cpu): another thread asks the vCPU to leave the run loop.
CpuExit ==
    /\ crashed = ""
    /\ ~exit_request
    /\ exit_request' = TRUE
    /\ UNCHANGED <<vcpu_dirty, emu_regs, hv_regs, unpushed, pc,
                   iothread_locked, run_outcome, exec_ret, work, vcpu_last>>
    /\ UNCHANGED <<aehd_run, exec_log>>
    /\ UNCHANGED <<irq_vars, mem_vars, life_vars, kick_vars, crashed, other_in_lock>>

\* aehd_cpu_exec entering its loop with the iothread lock still held.
ExecEnter_keeping_lock(halt) ==
    /\ crashed = ""
    /\ pc = "idle"
    /\ vcpu_last' = ExecOp
    /\ run_outcome' = ""
    /\ aehd_run' = NoRun
    /\ IF halt
       THEN /\ exit_request' = FALSE
            /\ exec_ret' = EXCP_HLT
            /\ exec_log' = <<Call("aehd_arch_process_async_events", 1)>>
            /\ UNCHANGED <<pc, iothread_locked>>
       ELSE /\ pc' = "loop"
            /\ exec_log' = <<Call("aehd_arch_process_async_events", 0)>>
            /\ UNCHANGED <<iothread_locked, exit_request, exec_ret>>
    /\ UNCHANGED <<vcpu_dirty, emu_regs, hv_regs, unpushed, work>>
    /\ UNCHANGED <<irq_vars, mem_vars, life_vars, kick_vars, crashed, other_in_lock>>

\* aehd_cpu_exec releasing the iothread lock before it asks
\* aehd_arch_process_async_events.
ExecEnter_unlocking_first(halt) ==
    /\ crashed = ""
    /\ pc = "idle"
    /\ vcpu_last' = ExecOp
    /\ run_outcome' = ""
    /\ aehd_run' = NoRun
    /\ iothread_locked' = FALSE
    /\ IF halt
       THEN /\ exit_request' = FALSE
            /\ exec_ret' = EXCP_HLT
            /\ exec_log' = <<Call("qemu_mutex_unlock_iothread", 0),
                              Call("aehd_arch_process_async_events", 1)>>
            /\ UNCHANGED pc
       ELSE /\ pc' = "loop"
            /\ exec_log' = <<Call("qemu_mutex_unlock_iothread", 0),
                              Call("aehd_arch_process_async_events", 0)>>
            /\ UNCHANGED <<exit_request, exec_ret>>
    /\ UNCHANGED <<vcpu_dirty, emu_regs, hv_regs, unpushed, work>>
    /\ UNCHANGED <<irq_vars, mem_vars, life_vars, kick_vars, crashed, other_in_lock>>

\* aehd_cpu_exec up to its loop: when aehd_arch_process_async_events says
\* so (halt), it clears the exit request and returns EXCP_HLT at once; else
\* it releases the iothread lock and enters the loop.  exec_log starts anew
\* with every call.
ExecEnter(halt) ==
    /\ crashed = ""
    /\ pc = "idle"
    /\ vcpu_last' = ExecOp
    /\ run_outcome' = ""
    /\ aehd_run' = NoRun
    /\ IF halt
       THEN /\ exit_request' = FALSE
            /\ exec_ret' = EXCP_HLT
            /\ exec_log' = <<Call("aehd_arch_process_async_events", 1)>>
            /\ UNCHANGED <<pc, iothread_locked>>
       ELSE /\ iothread_locked' = FALSE
            /\ pc' = "loop"
            /\ exec_log' = <<Call("aehd_arch_process_async_events", 0),
                              Call("qemu_mutex_unlock_iothread", 0)>>
            /\ UNCHANGED <<exit_request, exec_ret>>
    /\ UNCHANGED <<vcpu_dirty, emu_regs, hv_regs, unpushed, work>>
    /\ UNCHANGED <<irq_vars, mem_vars, life_vars, kick_vars, crashed, other_in_lock>>

\* The top of the loop: a dirty vCPU is pushed and marked clean.  exec_log
\* starts anew with every iteration, and what the last run call came back
\* with is not read again.
LoopTop ==
    /\ crashed = ""
    /\ pc = "loop"
    /\ RegistersBecome(put_registers_if_dirty(Registers))
    /\ pc' = "pre_run"
    /\ vcpu_last' = ExecOp
    /\ run_outcome' = ""
    /\ aehd_run' = NoRun
    /\ exec_log' = IF put_registers_if_dirty(Registers).pushes > 0
                   THEN <<Call("aehd_arch_put_registers", 0)>> ELSE <<>>
    /\ UNCHANGED <<iothread_locked, exit_request, exec_ret, work>>
    /\ UNCHANGED <<irq_vars, mem_vars, life_vars, kick_vars, crashed, other_in_lock>>

\* aehd_arch_pre_run, and the self-kick when an exit is requested.
PreRun ==
    /\ crashed = ""
    /\ pc = "pre_run"
    /\ pc' = "run"
    /\ vcpu_last' = ExecOp
    /\ exec_log' = exec_log \o <<Call("aehd_arch_pre_run", 0)>>
                       \o (IF exit_request
                           THEN <<Call("qemu_cpu_kick", 0)>> ELSE <<>>)
    /\ UNCHANGED <<vcpu_dirty, emu_regs, hv_regs, unpushed, iothread_locked,
                   exit_request, run_outcome, aehd_run, exec_ret, work>>
    /\ UNCHANGED <<irq_vars, mem_vars, life_vars, kick_vars, crashed, other_in_lock>>

\* The AEHD_RUN call of a vCPU that is not kicked: the guest runs, which
\* leaves any value in the hypervisor's registers, and the call comes back
\* with outcome and, in struct aehd_run, R.
Run(outcome, R, v) ==
    /\ crashed = ""
    /\ pc = "run"
    /\ ~kick_pending
    /\ hv_regs' = v
    /\ run_outcome' = outcome
    /\ aehd_run' = R
    /\ pc' = "post_run"
    /\ vcpu_last' = ExecOp
    /\ exec_log' = Append(exec_log, Call("AEHD_RUN", 0))
    /\ UNCHANGED <<vcpu_dirty, emu_regs, unpushed, iothread_locked,
                   exit_request, exec_ret, work>>
    /\ UNCHANGED <<irq_vars, mem_vars, life_vars, kick_vars, crashed, other_in_lock>>

\* The AEHD_RUN call of a kicked vCPU: the hypervisor takes the event and
\* the call comes back with AEHD_EXIT_INTR.
KickedRun(v) ==
    /\ crashed = ""
    /\ pc = "run"
    /\ kick_pending
    /\ kick_pending' = FALSE
    /\ user_event_pending' = FALSE
    /\ hv_regs' = v
    /\ run_outcome' = "AEHD_EXIT_INTR"
    /\ aehd_run' = NoRun
    /\ pc' = "post_run"
    /\ vcpu_last' = ExecOp
    /\ exec_log' = Append(exec_log, Call("AEHD_RUN", 0))
    /\ UNCHANGED <<vcpu_dirty, emu_regs, unpushed, iothread_locked,
                   exit_request, exec_ret, work, kick_last>>
    /\ UNCHANGED <<irq_vars, mem_vars, life_vars, crashed, other_in_lock>>

\* aehd_raise_event from another thread, on the vCPU (has_run) or on a
\* CPUState that has no run structure; a kick that the hypervisor accepted
\* is one it has to honour.
RaiseEvent(has_run, io) ==
    /\ crashed = ""
    /\ LET E == aehd_raise_event(has_run, user_event_pending, io)
       IN /\ user_event_pending' = E.user_event_pending
          /\ kick_pending' = (kick_pending \/ (E.kicks # <<>> /\ E.kicks[1] = 0))
          /\ kick_last' = [called |-> TRUE, had_run |-> has_run, at |-> pc,
                           kicks |-> E.kicks]
    /\ UNCHANGED <<vcpu_dirty, emu_regs, hv_regs, unpushed, pc,
                   iothread_locked, exit_request, run_outcome, aehd_run,
                   exec_log, exec_ret, work, vcpu_last>>
    /\ UNCHANGED <<irq_vars, mem_vars, life_vars, crashed, other_in_lock>>

\* The rest of the iteration: aehd_arch_post_run, and the result of the run
\* call is turned into the iteration's result.  A crash event takes the
\* iothread lock for the guest-panic report, which it gets once no other
\* thread holds it, and releases it after.  The port or memory access of an
\* IO or MMIO exit is made as the thread is, without the lock.  Result 0
\* goes round the loop.
Dispatch(stop, arch_ret) ==
    /\ crashed = ""
    /\ pc = "post_run"
    /\ HookAsked(run_outcome, aehd_run, stop, arch_ret)
    /\ run_outcome = "AEHD_SYSTEM_EVENT_CRASH" => ~other_in_lock
    /\ LET D == dispatch_exit(run_outcome, aehd_run, stop, arch_ret,
                              Registers)
       IN /\ exec_ret' = D.ret
          /\ pc' = IF D.ret = 0 THEN "loop" ELSE "exit"
          /\ RegistersBecome(D.regs)
          /\ exec_log' = Append(exec_log, Call("aehd_arch_post_run", 0))
                             \o D.calls
    /\ vcpu_last' =
           IF run_outcome \in {"AEHD_EXIT_IO", "AEHD_EXIT_MMIO"}
           THEN [ExecOp EXCEPT !.io = TRUE,
                               !.io_locked = iothread_locked,
                               !.io_interleaved = other_in_lock]
           ELSE ExecOp
    /\ UNCHANGED <<iothread_locked, exit_request, run_outcome, aehd_run, work>>
    /\ UNCHANGED <<irq_vars, mem_vars, life_vars, kick_vars, crashed, other_in_lock>>

\* The end of aehd_cpu_exec leaving the exit request as it is.
ExecExit_keeping_request ==
    /\ crashed = ""
    /\ pc = "exit"
    /\ ~other_in_lock
    /\ iothread_locked' = TRUE
    /\ pc' = "idle"
    /\ vcpu_last' = ExecOp
    /\ exec_log' = exec_log \o exec_exit(exec_ret)
    /\ UNCHANGED <<vcpu_dirty, emu_regs, hv_regs, unpushed, run_outcome,
                   aehd_run, exec_ret, work, exit_request>>
    /\ UNCHANGED <<irq_vars, mem_vars, life_vars, kick_vars, crashed,
                   other_in_lock>>

\* The end of aehd_cpu_exec: the iothread lock is taken again, once no
\* other thread holds it, a negative ret stops the virtual machine, and the
\* exit request is cleared.
ExecExit ==
    /\ crashed = ""
    /\ pc = "exit"
    /\ ~other_in_lock
    /\ iothread_locked' = TRUE
    /\ exit_request' = FALSE
    /\ pc' = "idle"
    /\ vcpu_last' = ExecOp
    /\ exec_log' = exec_log \o exec_exit(exec_ret)
    /\ UNCHANGED <<vcpu_dirty, emu_regs, hv_regs, unpushed, run_outcome,
                   aehd_run, exec_ret, work>>
    /\ UNCHANGED <<irq_vars, mem_vars, life_vars, kick_vars, crashed, other_in_lock>>

\* Another thread takes the iothread lock, which no thread holds, for a
\* region add or del or a change of the routing table.
OtherThreadLocks ==
    /\ crashed = ""
    /\ ~iothread_locked
    /\ ~other_in_lock
    /\ other_in_lock' = TRUE
    /\ UNCHANGED <<vcpu_dirty, emu_regs, hv_regs, unpushed, pc,
                   iothread_locked, exit_request, run_outcome, exec_ret,
                   work, vcpu_last>>
    /\ UNCHANGED <<aehd_run, exec_log>>
    /\ UNCHANGED <<irq_vars, mem_vars, life_vars, kick_vars, crashed>>

\* The other thread is done and releases the iothread lock.
OtherThreadUnlocks ==
    /\ crashed = ""
    /\ other_in_lock
    /\ other_in_lock' = FALSE
    /\ UNCHANGED <<vcpu_dirty, emu_regs, hv_regs, unpushed, pc,
                   iothread_locked, exit_request, run_outcome, exec_ret,
                   work, vcpu_last>>
    /\ UNCHANGED <<aehd_run, exec_log>>
    /\ UNCHANGED <<irq_vars, mem_vars, life_vars, kick_vars, crashed>>

(***************************************************************************)
(* The handles of the vCPUs: created, parked and taken again.              *)
(***************************************************************************)
\* The vCPUs of the machine are 0 .. NrVcpus - 1, each named by its
\* aehd_arch_vcpu_id.
NrVcpus == 2
VcpuIds == 0 .. (NrVcpus - 1)

\* The hypervisor creates the handles 1 .. MaxHandles.
MaxHandles == 3

INVALID_HANDLE_VALUE == -1

\* Where aehd_init_vcpu fails, if it does.
FailPoints ==
    {"none", "AEHD_CREATE_VCPU", "AEHD_GET_VCPU_MMAP_SIZE", "AEHD_VCPU_MMAP",
     "aehd_arch_init_vcpu"}

\* A CPUState before aehd_init_vcpu: no handle; inited says that
\* aehd_init_vcpu returned 0 for it and aehd_destroy_vcpu has not been
\* called since; holds says that cpu->aehd_fd is a handle that
\* aehd_init_vcpu stored there and that aehd_destroy_vcpu has not put on
\* the parked list since.
NoCpu ==
    [aehd_fd |-> INVALID_HANDLE_VALUE, vcpu_dirty |-> FALSE,
     inited |-> FALSE, holds |-> FALSE]

\* The index of the first entry of the parked list for vcpu_id, or 0.
FirstParked(parked, vcpu_id) ==
    LET found == {i \in 1 .. Len(parked) : parked[i].vcpu_id = vcpu_id}
    IN IF found = {} THEN 0
       ELSE CHOOSE i \in found : \A j \in found : i <= j

\* QLIST_REMOVE of the entry at index i.
Without(parked, i) ==
    [j \in 1 .. (Len(parked) - 1) |->
         IF j < i THEN parked[j] ELSE parked[j + 1]]

\* aehd_get_vcpu asking the hypervisor for a handle whatever is parked.
aehd_get_vcpu_always_creating(parked, created, vcpu_id, ok_create) ==
    [fd |-> IF ok_create THEN created + 1 ELSE INVALID_HANDLE_VALUE,
     parked |-> parked,
     created |-> IF ok_create THEN created + 1 ELSE created,
     ioctls |-> <<"AEHD_CREATE_VCPU">>]

\* aehd_get_vcpu: the handle it returns, the parked list and the number of
\* handles created after it, and the control calls it makes.  ok_create
\* says whether AEHD_CREATE_VCPU succeeds.
aehd_get_vcpu(parked, created, vcpu_id, ok_create) ==
    LET i == FirstParked(parked, vcpu_id)
    IN IF i # 0
       THEN [fd |-> parked[i].aehd_fd, parked |-> Without(parked, i),
             created |-> created, ioctls |-> <<>>]
       ELSE [fd |-> IF ok_create THEN created + 1
                    ELSE INVALID_HANDLE_VALUE,
             parked |-> parked,
             created |-> IF ok_create THEN created + 1 ELSE created,
             ioctls |-> <<"AEHD_CREATE_VCPU">>]

\* aehd_init_vcpu for the CPUState cpu of vcpu_id, failing at the call fail
\* should it come to that call: what it returns, the CPUState, the parked
\* list and the number of handles created after it, and the control calls
\* it makes.
aehd_init_vcpu(parked, created, cpu, vcpu_id, fail) ==
    LET G == aehd_get_vcpu(parked, created, vcpu_id,
                           fail # "AEHD_CREATE_VCPU")
        got == [cpu EXCEPT !.aehd_fd = G.fd, !.vcpu_dirty = TRUE,
                           !.holds = TRUE]
        rest == <<"AEHD_GET_VCPU_MMAP_SIZE", "AEHD_VCPU_MMAP",
                  "aehd_arch_init_vcpu">>
        failed == {i \in 1 .. Len(rest) : rest[i] = fail}
        last == IF failed = {} THEN Len(rest) ELSE CHOOSE i \in failed : TRUE
    IN IF G.fd = INVALID_HANDLE_VALUE
       THEN [ret |-> NEG_EFAULT, cpu |-> cpu, fd |-> G.fd,
             parked |-> G.parked, created |-> G.created,
             ioctls |-> G.ioctls]
       ELSE [ret |-> IF failed = {} THEN 0 ELSE -1,
             cpu |-> [got EXCEPT !.inited = (failed = {})],
             fd |-> G.fd, parked |-> G.parked, created |-> G.created,
             ioctls |-> G.ioctls \o SubSeq(rest, 1, last)]

\* aehd_destroy_vcpu giving the handle up when AEHD_VCPU_MUNMAP fails.
aehd_destroy_vcpu_giving_up(parked, cpu, vcpu_id, ok_munmap) ==
    IF ok_munmap
    THEN <<[vcpu_id |-> vcpu_id, aehd_fd |-> cpu.aehd_fd]>> \o parked
    ELSE parked

\* aehd_destroy_vcpu: the parked list after it.  The return of
\* AEHD_VCPU_MUNMAP is printed and the handle is put at the head of the list.
aehd_destroy_vcpu(parked, cpu, vcpu_id, ok_munmap) ==
    <<[vcpu_id |-> vcpu_id, aehd_fd |-> cpu.aehd_fd]>> \o parked

\* What the last aehd_init_vcpu or aehd_destroy_vcpu did: the function and
\* the vCPU, what it returned, the handle it obtained or parked, the control
\* calls it made in order, whether the last of them succeeded, and the
\* parked list it found.
NoLifeOp ==
    [op |-> "none", vcpu_id |-> 0, ret |-> 0, fd |-> INVALID_HANDLE_VALUE,
     ioctls |-> <<>>, ok |-> TRUE, parked |-> <<>>]

(***************************************************************************)
(* aehd_init, and the control calls one at a time.                         *)
(***************************************************************************)
\* The requests this file makes of each handle.
IoctlTypes ==
    [device |-> {"AEHD_CHECK_EXTENSION", "AEHD_CREATE_VM",
                 "AEHD_GET_VCPU_MMAP_SIZE"},
     vm |-> {"AEHD_SET_USER_MEMORY_REGION", "AEHD_CREATE_VCPU",
             "AEHD_GET_DIRTY_LOG", "AEHD_CHECK_EXTENSION",
             "AEHD_IRQ_LINE_STATUS", "AEHD_SET_GSI_ROUTING",
             "AEHD_CREATE_IRQCHIP", "AEHD_KICK_VCPU"},
     vcpu |-> {"AEHD_RUN", "AEHD_VCPU_MMAP", "AEHD_VCPU_MUNMAP"}]

Scopes == {"device", "vm", "vcpu"}

\* No control call yet.
NoIoctl == [scope |-> "", type |-> "", error |-> "", ret |-> 0]

\* aehd_init tries AEHD_CREATE_VM no more than MaxAttempts times.
MaxAttempts == 2

\* What a capability query or a kick comes to: success, or a failure to
\* try again.
CapResults == {io \in IoResults : io.error \in {"ERROR_SUCCESS", "ERROR_RETRY"}}

\* The slots the hypervisor reports for AEHD_CAP_NR_MEMSLOTS: none, or 2.
SlotCaps == {0, 2}

\* The hypervisor recommends one vCPU and supports two.
NrVcpusCap == 1
MaxVcpusCap == 2

\* The CPUs the machine asks for.
CpuCounts == {1, 3, 5}

\* What aehd_arch_init and aehd_arch_irqchip_create may return.
HookResults == {-1, 0}

\* The inputs of aehd_init: open_ok says whether the device opens;
\* slots_io, nr_io, max_io and nr2_io are what the queries of
\* AEHD_CAP_NR_MEMSLOTS, AEHD_CAP_NR_VCPUS, AEHD_CAP_MAX_VCPUS and of
\* AEHD_CAP_NR_VCPUS once more come to, and slots the slots reported; num is
\* the number of CPUs asked for; ios are what the attempts of AEHD_CREATE_VM
\* come to; arch_ret is returned by aehd_arch_init, irq_ret by
\* aehd_arch_irqchip_create; irqchip_io is what AEHD_CREATE_IRQCHIP comes to.
InitInputs ==
    [open_ok : BOOLEAN, slots_io : CapResults, slots : SlotCaps,
     nr_io : CapResults, max_io : CapResults, nr2_io : CapResults,
     num : CpuCounts, ios : [1 .. MaxAttempts -> IoResults],
     arch_ret : HookResults, irq_ret : HookResults, irqchip_io : IoResults]

\* aehd_check_extension on an open device: result when the call succeeds,
\* else 0.
aehd_check_extension(io, result) == IF aehd_ioctl(io) # 0 THEN 0 ELSE result

\* The record of a control call made by aehd_init.
Made(type, arg, ret) == [type |-> type, arg |-> arg, ret |-> ret]

\* aehd_recommended_vcpus.
aehd_recommended_vcpus(io) ==
    LET ret == aehd_check_extension(io, NrVcpusCap)
    IN IF ret # 0 THEN ret ELSE 4

\* aehd_max_vcpus: nr2_io is what its own query of AEHD_CAP_NR_VCPUS comes to.
aehd_max_vcpus(max_io, nr2_io) ==
    LET ret == aehd_check_extension(max_io, MaxVcpusCap)
    IN IF ret # 0 THEN ret ELSE aehd_recommended_vcpus(nr2_io)

\* The loop of aehd_init around AEHD_CREATE_VM, from attempt n on: ios are
\* the results of the attempts; the call is made again while it returns
\* -EINTR.  ret is the result of the last attempt, rets those of all.
RECURSIVE create_vm(_, _)
create_vm(ios, n) ==
    LET ret == aehd_ioctl(ios[n])
    IN IF ret = NEG_EINTR /\ n < Len(ios)
       THEN create_vm(ios, n + 1)
       ELSE [ret |-> ret, rets |-> [i \in 1 .. n |-> aehd_ioctl(ios[i])]]

\* Before aehd_init: ret is what it returns, fd and vmfd say whether the
\* handles are open when it is over, nr_slots is s->nr_slots, create_vm the
\* results of its AEHD_CREATE_VM calls in order, others the other control
\* calls it made, exited says that it ended in exit(1), and operational
\* that it went as far as registering the memory listener.
NoInit ==
    [called |-> FALSE, ret |-> 0, fd |-> FALSE, vmfd |-> FALSE,
     nr_slots |-> 0, create_vm |-> <<>>, others |-> <<>>, exited |-> FALSE,
     operational |-> FALSE]

\* aehd_init.
aehd_init(in) ==
    LET nr == aehd_check_extension(in.slots_io, in.slots)
        soft_vcpus_limit == aehd_recommended_vcpus(in.nr_io)
        hard_vcpus_limit == aehd_max_vcpus(in.max_io, in.nr2_io)
        queries ==
            <<Made("AEHD_CHECK_EXTENSION", "AEHD_CAP_NR_MEMSLOTS",
                   aehd_ioctl(in.slots_io)),
              Made("AEHD_CHECK_EXTENSION", "AEHD_CAP_NR_VCPUS",
                   aehd_ioctl(in.nr_io)),
              Made("AEHD_CHECK_EXTENSION", "AEHD_CAP_MAX_VCPUS",
                   aehd_ioctl(in.max_io))>>
            \o (IF aehd_check_extension(in.max_io, MaxVcpusCap) = 0
                THEN <<Made("AEHD_CHECK_EXTENSION", "AEHD_CAP_NR_VCPUS",
                            aehd_ioctl(in.nr2_io))>>
                ELSE <<>>)
        V == create_vm(in.ios, 1)
        began == [NoInit EXCEPT !.called = TRUE]
        opened == [began EXCEPT
                     !.fd = TRUE,
                     !.nr_slots = IF nr = 0 THEN 32 ELSE nr,
                     !.others = queries]
        tried == [opened EXCEPT !.create_vm = V.rets]
        irqchip == IF in.irq_ret = 0 THEN aehd_vm_ioctl(in.irqchip_io)
                   ELSE in.irq_ret
    IN IF ~in.open_ok THEN [began EXCEPT !.ret = NEG_ENODEV]
       ELSE IF in.num > soft_vcpus_limit /\ in.num > hard_vcpus_limit
            THEN [opened EXCEPT !.exited = TRUE]
       ELSE IF V.ret < 0 THEN [tried EXCEPT !.ret = V.ret, !.fd = FALSE]
       ELSE IF in.arch_ret < 0
            THEN [tried EXCEPT !.ret = in.arch_ret, !.fd = FALSE]
       ELSE LET made ==
                    [tried EXCEPT
                       !.vmfd = TRUE,
                       !.others =
                           IF in.irq_ret = 0
                           THEN Append(@, Made("AEHD_CREATE_IRQCHIP", "",
                                               irqchip))
                           ELSE @]
            IN IF irqchip < 0 THEN [made EXCEPT !.exited = TRUE]
               ELSE [made EXCEPT !.operational = TRUE]

ExitInit == "exit(1): aehd_init"

\* aehd_init(ms), once, before anything else.
AehdInit(in) ==
    /\ crashed = ""
    /\ ~init_last.called
    /\ init_last' = aehd_init(in)
    /\ crashed' = IF init_last'.exited THEN ExitInit ELSE ""
    /\ UNCHANGED <<aehd_parked_vcpus, cpus, nr_created, life_last, ioctl_last>>
    /\ UNCHANGED <<irq_vars, mem_vars, vcpu_vars, kick_vars>>

\* One control call once AEHD is operational: aehd_ioctl, aehd_vm_ioctl or
\* aehd_vcpu_ioctl with a request of its handle.
ControlCall(scope, type, io) ==
    /\ crashed = ""
    /\ init_last.operational
    /\ type \in IoctlTypes[scope]
    /\ ioctl_last' =
           [scope |-> scope, type |-> type, error |-> io.error,
            ret |-> CASE scope = "device" -> aehd_ioctl(io)
                      [] scope = "vm" -> aehd_vm_ioctl(io)
                      [] scope = "vcpu" -> aehd_vcpu_ioctl(io)]
    /\ UNCHANGED <<aehd_parked_vcpus, cpus, nr_created, life_last, init_last>>
    /\ UNCHANGED <<irq_vars, mem_vars, vcpu_vars, kick_vars, crashed>>

LifecycleInit ==
    /\ ioctl_last = NoIoctl
    /\ init_last = NoInit
    /\ aehd_parked_vcpus = <<>>
    /\ cpus = [id \in VcpuIds |-> NoCpu]
    /\ nr_created = 0
    /\ life_last = NoLifeOp

\* aehd_init_vcpu(cpu) for a vCPU that is not running: a new vCPU, or one
\* that is created again after its destruction.
InitVcpu(vcpu_id, fail) ==
    /\ crashed = ""
    /\ ~cpus[vcpu_id].inited
    /\ LET R == aehd_init_vcpu(aehd_parked_vcpus, nr_created, cpus[vcpu_id],
                               vcpu_id, fail)
       IN /\ fail \in {"none"} \cup {R.ioctls[i] : i \in 1 .. Len(R.ioctls)}
          /\ R.created <= MaxHandles
          /\ aehd_parked_vcpus' = R.parked
          /\ cpus' = [cpus EXCEPT ![vcpu_id] = R.cpu]
          /\ nr_created' = R.created
          /\ life_last' = [op |-> "init_vcpu", vcpu_id |-> vcpu_id,
                           ret |-> R.ret, fd |-> R.fd, ioctls |-> R.ioctls,
                           ok |-> fail = "none",
                           parked |-> aehd_parked_vcpus]
    /\ UNCHANGED <<ioctl_last, init_last>>
    /\ UNCHANGED <<irq_vars, mem_vars, vcpu_vars, kick_vars, crashed>>

\* aehd_destroy_vcpu(cpu) for a running vCPU.  ok_munmap says whether
\* AEHD_VCPU_MUNMAP succeeds.
DestroyVcpu(vcpu_id, ok_munmap) ==
    /\ crashed = ""
    /\ cpus[vcpu_id].inited
    /\ aehd_parked_vcpus' = aehd_destroy_vcpu(aehd_parked_vcpus,
                                              cpus[vcpu_id], vcpu_id,
                                              ok_munmap)
    /\ cpus' = [cpus EXCEPT ![vcpu_id].inited = FALSE,
                            ![vcpu_id].holds = FALSE]
    /\ life_last' = [op |-> "destroy_vcpu", vcpu_id |-> vcpu_id,
                     ret |-> 0, fd |-> cpus[vcpu_id].aehd_fd,
                     ioctls |-> <<"AEHD_VCPU_MUNMAP">>, ok |-> ok_munmap,
                     parked |-> aehd_parked_vcpus]
    /\ UNCHANGED nr_created
    /\ UNCHANGED <<ioctl_last, init_last>>
    /\ UNCHANGED <<irq_vars, mem_vars, vcpu_vars, kick_vars, crashed>>

Init ==
    /\ RoutingInit
    /\ MemoryInit
    /\ VcpuInit
    /\ LifecycleInit
    /\ crashed = ""

SpecRouting == Init /\ [][RoutingNext]_vars

MemoryNext ==
    \/ \E sec \in Sections, ok \in BOOLEAN : RegionAdd(sec, ok)
    \/ \E sec \in Sections, ok \in BOOLEAN, ok_log \in BOOLEAN :
           \E report \in Reports(sec) : RegionDel(sec, ok, ok_log, report)
    \/ \E sec \in Sections, ok \in BOOLEAN :
           \E report \in Reports(sec) : LogSync(sec, ok, report)
    \/ \E sec \in Sections, old \in LogMasks, ok \in BOOLEAN :
           LogStart(sec, old, ok)
    \/ \E sec \in Sections, old \in LogMasks, ok \in BOOLEAN :
           LogStop(sec, old, ok)
    \/ \E mr \in LoggedMrs, mask \in LogMasks : SetLogMask(mr, mask)
    \/ \E mr \in RomDevices, romd_mode \in BOOLEAN : SetRomdMode(mr, romd_mode)

SpecMemory == Init /\ [][MemoryNext]_vars

VcpuNext ==
    \/ \E v \in RegValues : EmulatorWrite(v)
    \/ \E seen \in BOOLEAN : SynchronizeState(seen)
    \/ SynchronizePostReset
    \/ SynchronizePostInit
    \/ SynchronizePreLoadvm
    \/ RunQueuedWork
    \/ CpuExit
    \/ \E halt \in BOOLEAN : ExecEnter(halt)
    \/ LoopTop
    \/ PreRun
    \/ \E outcome \in RunOutcomes, v \in RegValues :
           \E R \in ExitData(outcome) : Run(outcome, R, v)
    \/ \E stop \in BOOLEAN, arch_ret \in ArchResults : Dispatch(stop, arch_ret)
    \/ ExecExit
    \/ OtherThreadLocks
    \/ OtherThreadUnlocks

SpecVcpu == Init /\ [][VcpuNext]_vars

\* The vCPU thread goes on: inside the loop of aehd_cpu_exec it does not
\* wait for anything before the run call, and the run call comes back.
SpecVcpuLive ==
    /\ SpecVcpu
    /\ WF_vars(LoopTop)
    /\ WF_vars(PreRun)
    /\ WF_vars(\E outcome \in RunOutcomes, v \in RegValues :
                   \E R \in ExitData(outcome) : Run(outcome, R, v))

KickNext ==
    \/ \E halt \in BOOLEAN : ExecEnter(halt)
    \/ LoopTop
    \/ PreRun
    \/ \E outcome \in RunOutcomes, v \in RegValues :
           \E R \in ExitData(outcome) : Run(outcome, R, v)
    \/ \E v \in RegValues : KickedRun(v)
    \/ \E has_run \in BOOLEAN, io \in CapResults : RaiseEvent(has_run, io)
    \/ \E stop \in BOOLEAN, arch_ret \in ArchResults : Dispatch(stop, arch_ret)
    \/ ExecExit
    \/ OtherThreadLocks
    \/ OtherThreadUnlocks

\* The vCPU thread goes on up to the run call; a run call with a kick to
\* honour comes back, and so does one without as long as nothing is known
\* about the guest; the thread goes on after the run call; a thread that
\* holds the iothread lock releases it, and the vCPU thread gets it in the
\* end.
SpecKick ==
    /\ Init /\ [][KickNext]_vars
    /\ WF_vars(LoopTop)
    /\ WF_vars(PreRun)
    /\ WF_vars(\E v \in RegValues : KickedRun(v))
    /\ WF_vars(\E stop \in BOOLEAN, arch_ret \in ArchResults :
                   Dispatch(stop, arch_ret))
    /\ WF_vars(OtherThreadUnlocks)
    /\ SF_vars(ExecExit)

LifecycleNext ==
    \/ \E vcpu_id \in VcpuIds, fail \in FailPoints : InitVcpu(vcpu_id, fail)
    \/ \E vcpu_id \in VcpuIds, ok_munmap \in BOOLEAN :
           DestroyVcpu(vcpu_id, ok_munmap)

SpecLifecycle == Init /\ [][LifecycleNext]_vars

InitNext ==
    \/ \E in \in InitInputs : AehdInit(in)
    \/ \E scope \in Scopes, io \in IoResults :
           \E type \in IoctlTypes[scope] : ControlCall(scope, type, io)

SpecInit == Init /\ [][InitNext]_vars

(***************************************************************************)
(* Properties of the routing table.                                        *)
(***************************************************************************)
\* The last operation was a send_msi that came right after a send_msi of
\* the same message which missed the cache, got a GSI and signalled it.
SentTwice ==
    /\ irq_last.op = "send_msi"
    /\ irq_last.again
    /\ ~irq_last.prev_hit
    /\ irq_last.prev_signals # <<>>

\* C1: a message that is not cached and is sent twice in a row, nothing
\* flushed or released in between, is committed to the hypervisor exactly
\* once and signalled exactly twice, on the same GSI both times: the second
\* send hits the cache, allocates nothing and commits nothing.
C1_SendTwiceCommitsOnce ==
    SentTwice =>
        /\ irq_last.hit
        /\ ~irq_last.alloc
        /\ irq_last.prev_commits + irq_last.commits = 1
        /\ Len(irq_last.prev_signals) + Len(irq_last.signals) = 2
        /\ irq_last.signals = irq_last.prev_signals
        /\ irq_last.released = <<>>

C1_Witness ==
    /\ SentTwice
    /\ irq_last.hit
    /\ irq_last.signals = <<1>>
    /\ Len(irq_routes) = GsiCount

\* The last operation asked for a GSI while the table held gsi_count
\* entries.
AllocatedAtCapacity == irq_last.alloc /\ irq_last.flushed

\* C2: a GSI requested while the table holds gsi_count entries is looked for
\* only after every cached MSI route is flushed: its GSI is released (bit
\* clear, post-release hook called), no MSI entry of its GSI is in the
\* table and the cache is empty; so a send_msi that finds the table full and the cache not
\* empty gets a GSI.
C2_FlushBeforeAllocation ==
    AllocatedAtCapacity =>
        /\ \A k \in 1 .. Len(irq_last.precached) :
               LET gsi == irq_last.precached[k].gsi
               IN /\ gsi \notin irq_last.at_bitmap
                  /\ \E n \in 1 .. Len(irq_last.released) :
                         irq_last.released[n] = gsi
                  /\ \A n \in 1 .. Len(irq_last.at_routes) :
                         ~ /\ irq_last.at_routes[n].gsi = gsi
                           /\ irq_last.at_routes[n].type = AEHD_IRQ_ROUTING_MSI
        /\ irq_last.at_cached = <<>>
        /\ (irq_last.op = "send_msi" /\ irq_last.precached # <<>>) =>
               /\ irq_last.virq \in irq_last.at_bitmap \cup Gsis
               /\ irq_last.virq >= 0
               /\ irq_last.signals = <<irq_last.virq>>

\* A third message is sent when the two GSIs are taken by the MSI routes of
\* two others: it gets the GSI of one of them.
C2_Witness ==
    /\ AllocatedAtCapacity
    /\ irq_last.op = "send_msi"
    /\ Len(irq_last.precached) = GsiCount
    /\ irq_last.at_routes = <<>>
    /\ irq_last.signals = <<0>>

\* C3: aehd_irqchip_get_virq never returns a GSI whose bit is set: it
\* returns the lowest clear bit of the bitmap, or -ENOSPC when no bit below
\* gsi_count is clear.
C3_LowestFreeGsi ==
    irq_last.alloc =>
        LET free == Gsis \ irq_last.at_bitmap
        IN IF free = {}
           THEN irq_last.virq = NEG_ENOSPC
           ELSE /\ irq_last.virq \in free
                /\ \A g \in free : irq_last.virq <= g

\* A GSI is released and the allocation that follows returns that GSI.
C3_Witness ==
    /\ irq_last.alloc
    /\ irq_last.after_release
    /\ irq_last.virq = 1
    /\ 0 \in irq_last.at_bitmap

\* C4: the routing table never holds more than gsi_count entries.
C4_RouteCountWithinCapacity == Len(irq_routes) <= GsiCount

\* Two irqchip routes share GSI 0, so the table is full while GSI 1 is free;
\* nothing is cached for the flush to reclaim, and the MSI route is added as
\* entry gsi_count + 1.
C4_Witness ==
    /\ irq_last.op = "add_msi_route"
    /\ irq_last.flushed
    /\ irq_last.precached = <<>>
    /\ irq_last.ret = 1
    /\ Len(irq_routes) = GsiCount + 1

\* The entries of the table that carry the GSI.
EntriesOf(gsi) == {n \in 1 .. Len(irq_routes) : irq_routes[n].gsi = gsi}

\* C5 as stated: every GSI whose bit is set is the GSI of at most one entry.
C5_OneEntryPerGsi ==
    \A gsi \in used_gsi_bitmap : Cardinality(EntriesOf(gsi)) <= 1

\* C5: every GSI whose bit is set, and which aehd_irqchip_add_irq_route has
\* not been given while it had an entry already, is the GSI of at most one
\* entry.
C5_OneEntryPerUnsharedGsi ==
    \A gsi \in used_gsi_bitmap \ shared_gsis : Cardinality(EntriesOf(gsi)) <= 1

\* The table holds an irqchip route and an MSI route, each the one entry of
\* its GSI.
C5_Witness ==
    /\ used_gsi_bitmap = Gsis
    /\ shared_gsis = {}
    /\ irq_last.op = "add_msi_route"
    /\ \A gsi \in Gsis : Cardinality(EntriesOf(gsi)) = 1
    /\ \E n \in 1 .. Len(irq_routes) :
           irq_routes[n].type = AEHD_IRQ_ROUTING_IRQCHIP

(***************************************************************************)
(* Properties of the memory slots.                                         *)
(***************************************************************************)
\* The slot aehd_lookup_matching_slot finds for the aligned start and size
\* of a section.
SlotFoundFor(sec) ==
    LET al == aehd_align_section(MemorySections[sec])
    IN aehd_lookup_matching_slot(slots, al.start, al.size)

\* C6: whatever sections were added and deleted, the lookup of the aligned
\* start and size of a section of the flat view finds exactly the slot
\* region_add registered it in, and finds no slot once region_del has
\* unregistered it (nor for a section that is trapped and has no slot).
C6_LookupFindsRegisteredSlot ==
    \A sec \in Sections :
        aehd_align_section(MemorySections[sec]).size # 0 =>
            SlotFoundFor(sec) = IF sec \in present THEN slot_of[sec] ELSE NULL

\* The section in slot 0 is deleted while another stays registered in
\* slot 1: that one is still found, the deleted one is not.
C6_Witness ==
    /\ mem_last.op = "region_del"
    /\ mem_last.mem = 0
    /\ SlotFoundFor(mem_last.section) = NULL
    /\ \E sec \in present : slot_of[sec] = 1 /\ SlotFoundFor(sec) = 1

\* C7: no two live slots (memory_size # 0) cover a common guest-physical
\* address.
C7_LiveSlotsDisjoint ==
    \A i, j \in SlotIds :
        (i # j /\ slots[i].memory_size # 0 /\ slots[j].memory_size # 0) =>
            \/ slots[i].start_addr + slots[i].memory_size <= slots[j].start_addr
            \/ slots[j].start_addr + slots[j].memory_size <= slots[i].start_addr

\* Two sections that meet in the middle of a page are both registered.
C7_Witness ==
    /\ {"Low", "High"} \subseteq present
    /\ \A i \in SlotIds : slots[i].memory_size # 0
    /\ mem_last.op = "region_add"

\* The last callback was a log_start or a log_stop that found the slot of
\* its section.
FlagsRecomputed ==
    /\ mem_last.op \in {"log_start", "log_stop"}
    /\ mem_last.mem # NULL

\* C8: a log_start or log_stop that recomputes for a slot the flags the
\* slot has makes no AEHD_SET_USER_MEMORY_REGION call and leaves the slot
\* as it was; it makes a call only when the flags differ.
C8_FlagChangeIdempotent ==
    FlagsRecomputed =>
        LET now == slots[mem_last.mem]
        IN IF now.flags = mem_last.before.flags
           THEN mem_last.ioctls = <<>> /\ now = mem_last.before
           ELSE mem_last.ioctls # <<>>

\* log_start for a slot that has AEHD_MEM_LOG_DIRTY_PAGES already.
C8_Witness ==
    /\ FlagsRecomputed
    /\ mem_last.op = "log_start"
    /\ AEHD_MEM_LOG_DIRTY_PAGES \in mem_last.before.flags
    /\ slots[mem_last.mem] = mem_last.before
    /\ mem_last.ioctls = <<>>

(***************************************************************************)
(* Properties of the vCPU.                                                 *)
(***************************************************************************)
\* C9: the pre-run hook and the run call are never reached with the vCPU
\* dirty: the top of the loop has pushed the registers and cleared the flag,
\* so the emulator's copy holds no change the hypervisor has not been
\* given.
C9_NoRunWhileDirty ==
    pc \in {"pre_run", "run"} => ~vcpu_dirty /\ ~unpushed

\* The run call is about to be made with a register value the emulator
\* wrote and the loop pushed.
C9_Witness ==
    /\ pc = "run"
    /\ ~vcpu_dirty
    /\ emu_regs = MaxReg
    /\ hv_regs = MaxReg
    /\ ~unpushed

\* The last operation was a synchronize_state call that came right after
\* another, nothing run in between.
SynchronizedTwice ==
    /\ vcpu_last.op = "synchronize_state"
    /\ vcpu_last.again

\* C10 as stated: of two synchronize_state calls in a row the second finds
\* the vCPU clean and does nothing, so that the two pull the registers at
\* most once.
C10_SecondCallSeesCleanState ==
    SynchronizedTwice =>
        /\ ~vcpu_last.observed
        /\ vcpu_last.pulls = 0
        /\ vcpu_last.prev_pulls + vcpu_last.pulls <= 1

\* C10: of two synchronize_state calls in a row the second finds the vCPU
\* dirty and does nothing, so that the two pull the registers at most once.
C10_SecondSynchronizeIsNoOp ==
    SynchronizedTwice =>
        /\ vcpu_last.observed
        /\ vcpu_last.pulls = 0
        /\ vcpu_last.pushes = 0
        /\ vcpu_last.prev_pulls + vcpu_last.pulls <= 1

\* The first of the two calls pulled what the guest left in the registers.
C10_Witness ==
    /\ SynchronizedTwice
    /\ vcpu_last.prev_pulls = 1
    /\ vcpu_last.pulls = 0
    /\ vcpu_dirty
    /\ emu_regs = MaxReg
    /\ hv_regs = MaxReg

\* C11: synchronize_post_reset pushes the reset state and
\* synchronize_post_init the full state, each once, and both leave the vCPU
\* clean with nothing unpushed; synchronize_pre_loadvm pulls and pushes
\* nothing and leaves the vCPU dirty, and a synchronize_state that follows
\* it pulls nothing and leaves the emulator's registers dirty as they are.
C11_PostResetPostInitPreLoadvm ==
    /\ vcpu_last.op = "synchronize_post_reset" =>
           /\ vcpu_last.pushes = 1 /\ vcpu_last.pulls = 0
           /\ vcpu_last.level = AEHD_PUT_RESET_STATE
           /\ ~vcpu_dirty /\ ~unpushed /\ hv_regs = emu_regs
    /\ vcpu_last.op = "synchronize_post_init" =>
           /\ vcpu_last.pushes = 1 /\ vcpu_last.pulls = 0
           /\ vcpu_last.level = AEHD_PUT_FULL_STATE
           /\ ~vcpu_dirty /\ ~unpushed /\ hv_regs = emu_regs
    /\ vcpu_last.op = "synchronize_pre_loadvm" =>
           /\ vcpu_last.pushes = 0 /\ vcpu_last.pulls = 0
           /\ vcpu_dirty
    /\ (/\ vcpu_last.op = "synchronize_state"
        /\ vcpu_last.prev = "synchronize_pre_loadvm") =>
           /\ vcpu_last.pushes = 0 /\ vcpu_last.pulls = 0
           /\ vcpu_last.observed
           /\ vcpu_dirty

\* After synchronize_pre_loadvm the emulator loads a state that differs from
\* the hypervisor's, and the synchronize_state that follows leaves it.
C11_Witness ==
    /\ vcpu_last.op = "synchronize_state"
    /\ vcpu_last.prev = "synchronize_pre_loadvm"
    /\ vcpu_last.pulls = 0
    /\ emu_regs = MaxReg
    /\ hv_regs = 0
    /\ unpushed

\* A synchronize_* call that has returned and whose registers were pulled
\* or pushed or whose dirty flag was written.
SynchronizeCallbackRan ==
    /\ vcpu_last.op \in WorkKinds
    /\ vcpu_last.ran_on # ""

\* C12 as stated: whatever a synchronize_* entry point called from another
\* thread does with the registers or the dirty flag, reads of the flag
\* included, is done on the vCPU's thread.
C12_NoAccessFromRequestingThread ==
    vcpu_last.op \in WorkKinds =>
        /\ vcpu_last.ran_on \in {"", VcpuThread}
        /\ vcpu_last.read_on \in {"", VcpuThread}

\* C12: every register pull and push and every write of the dirty flag a
\* synchronize_* entry point causes is done by its callback on the vCPU's
\* thread; the requesting thread does none of them (it only reads the dirty
\* flag, in synchronize_state).
C12_CallbacksOnVcpuThread ==
    vcpu_last.op \in WorkKinds =>
        /\ vcpu_last.ran_on \in {"", VcpuThread}
        /\ vcpu_last.pulls + vcpu_last.pushes > 0 =>
               vcpu_last.ran_on = VcpuThread
        /\ vcpu_last.op # "synchronize_state" => vcpu_last.read_on = ""
        /\ vcpu_last.ran_on = "" =>
               /\ vcpu_last.op = "synchronize_state"
               /\ vcpu_last.observed

\* synchronize_state called from another thread found the vCPU clean, and
\* its callback pulled the registers on the vCPU's thread.
C12_Witness ==
    /\ SynchronizeCallbackRan
    /\ vcpu_last.op = "synchronize_state"
    /\ vcpu_last.read_on = OtherThread
    /\ vcpu_last.ran_on = VcpuThread
    /\ vcpu_last.pulls = 1

\* The vCPU thread is in the loop of aehd_cpu_exec.
InLoop == pc \in {"loop", "pre_run", "run", "post_run"}

\* C13 as stated: the lock is released before the run call and held again
\* for the port or memory access of an IO or MMIO exit, during which no
\* other thread holds it.
C13_IoDispatchUnderLock ==
    /\ pc \in {"pre_run", "run"} => ~iothread_locked
    /\ vcpu_last.io => vcpu_last.io_locked /\ ~vcpu_last.io_interleaved

\* C13: the lock is released before the loop is entered and is not held
\* anywhere in it, the run call and the port or memory access of an IO or
\* MMIO exit included; it is held again only once the loop is left.
C13_IoDispatchOutsideLock ==
    /\ InLoop => ~iothread_locked
    /\ vcpu_last.io => ~vcpu_last.io_locked
    /\ pc = "idle" => iothread_locked
    /\ ~(iothread_locked /\ other_in_lock)

\* The access of an IO or MMIO exit is made while another thread holds the
\* lock.
C13_Witness ==
    /\ vcpu_last.io
    /\ vcpu_last.io_interleaved
    /\ ~vcpu_last.io_locked
    /\ pc = "loop"

\* The AEHD_SET_USER_MEMORY_REGION calls among the calls of a callback.
IsSetRegionCall(c) == c.call = "AEHD_SET_USER_MEMORY_REGION"
SetRegionCalls(ioctls) == SelectSeq(ioctls, IsSetRegionCall)

\* C14: a callback that commits a slot to the hypervisor makes two
\* AEHD_SET_USER_MEMORY_REGION calls, the first with size 0 and the second
\* with the slot's size, exactly when it clears AEHD_MEM_READONLY on a slot
\* that had it and is not empty; in every other case, the registration of a
\* read-only slot included, it makes one call.
C14_TwoPhaseOnlyWhenClearingReadonly ==
    (mem_last.mem # NULL /\ SetRegionCalls(mem_last.ioctls) # <<>>) =>
        LET calls == SetRegionCalls(mem_last.ioctls)
            now == slots[mem_last.mem]
            clearing == /\ mem_last.op \in {"log_start", "log_stop"}
                        /\ mem_last.before.memory_size # 0
                        /\ AEHD_MEM_READONLY \in mem_last.before.flags
                        /\ AEHD_MEM_READONLY \notin now.flags
        IN IF clearing
           THEN /\ Len(calls) = 2
                /\ calls[1].memory_size = 0
                /\ calls[2].memory_size = now.memory_size
           ELSE /\ Len(calls) = 1
                /\ calls[1].memory_size = now.memory_size

\* The last callback was aehd_region_del and it removed a slot.
SlotRemoved == mem_last.op = "region_del" /\ mem_last.mem # NULL

\* C15: aehd_region_del of a slot with AEHD_MEM_LOG_DIRTY_PAGES first asks
\* the hypervisor for the dirty log of that slot, while the slot still has
\* its size, and hands the log it gets to the dirty-page tracker; only then
\* is the slot's size set to 0 and AEHD_SET_USER_MEMORY_REGION called for
\* it.  A slot without the flag is removed with no AEHD_GET_DIRTY_LOG call
\* and no call of the tracker.
C15_DirtyLogFlushedBeforeRemoval ==
    SlotRemoved =>
        LET was == mem_last.before
            sync == mem_last.sync
            calls == mem_last.ioctls
        IN /\ was.memory_size # 0
           /\ slots[mem_last.mem].memory_size = 0
           /\ calls[Len(calls)] = SetRegionCall(mem_last.mem, was, 0)
           /\ IF AEHD_MEM_LOG_DIRTY_PAGES \in was.flags
              THEN /\ sync.called
                   /\ calls[1] = [call |-> "AEHD_GET_DIRTY_LOG",
                                  slot |-> mem_last.mem]
                   /\ \A i \in 2 .. Len(calls) : IsSetRegionCall(calls[i])
                   /\ sync.ret = 0 =>
                          /\ Len(sync.lebitmap) = 1
                          /\ sync.lebitmap[1].bitmap \in DirtyLogs(was)
              ELSE /\ ~sync.called
                   /\ \A i \in 1 .. Len(calls) : IsSetRegionCall(calls[i])
                   /\ sync.lebitmap = <<>>

\* A slot with dirty logging was removed and pages of its dirty log were
\* handed to the tracker.
C15_Witness ==
    /\ SlotRemoved
    /\ AEHD_MEM_LOG_DIRTY_PAGES \in mem_last.before.flags
    /\ mem_last.sync.ret = 0
    /\ mem_last.sync.lebitmap # <<>>
    /\ mem_last.sync.lebitmap[1].bitmap # {}

\* The page of the ram_addr_t space that holds page i of the slot that
\* aehd_set_phys_mem registers for section sec.
PageOfSlot(sec, i) ==
    LET section == MemorySections[sec]
        al == aehd_align_section(section)
    IN (MemoryRegions[section.mr].ram_addr + section.offset_within_region
        + (al.start - section.offset_within_address_space)) \div PageSize + i

\* C16: when the dirty log of a slot with AEHD_MEM_LOG_DIRTY_PAGES is
\* synchronized, the pages marked in the dirty-page tracker are exactly the
\* pages of the slot whose bits are set in the dirty log the hypervisor
\* gave: bit i marks page i of the slot.
C16_MarksExactlyReportedPages ==
    (/\ mem_last.sync.lebitmap # <<>>
     /\ AEHD_MEM_LOG_DIRTY_PAGES \in mem_last.before.flags) =>
        mem_last.sync.marked =
            {PageOfSlot(mem_last.section, i) :
                 i \in mem_last.sync.lebitmap[1].bitmap}

\* The slots as they were when the last callback synchronized a dirty log:
\* aehd_region_del has since set the size of the slot it removed to 0.
SlotsAtSync ==
    IF SlotRemoved THEN [slots EXCEPT ![mem_last.mem] = mem_last.before]
    ELSE slots

\* C17: aehd_physical_sync_dirty_bitmap for a section that has no slot, or
\* of which no whole page is left, calls neither the hypervisor nor the
\* tracker and returns 0; when the hypervisor refuses AEHD_GET_DIRTY_LOG it
\* returns an error and the tracker is not called; and the buffer for the
\* dirty log is allocated once when the hypervisor is asked and freed once,
\* whether the hypervisor refused or not.
C17_SyncWithoutSlotAndOnFailure ==
    mem_last.sync.called =>
        LET sync == mem_last.sync
            al == aehd_align_section(MemorySections[sync.section])
            absent ==
                \/ al.size = 0
                \/ aehd_lookup_matching_slot(SlotsAtSync, al.start, al.size)
                       = NULL
        IN /\ absent => /\ sync.ioctls = <<>>
                        /\ sync.lebitmap = <<>> /\ sync.marked = {}
                        /\ sync.ret = 0
           /\ ~absent => Len(sync.ioctls) = 1
           /\ sync.refused => /\ sync.ret < 0
                              /\ sync.lebitmap = <<>> /\ sync.marked = {}
           /\ sync.mallocs = Len(sync.ioctls)
           /\ sync.frees = sync.mallocs

\* The hypervisor refused the dirty log of a slot that aehd_region_del was
\* removing, and the buffer was allocated and freed.
C17_Witness ==
    /\ mem_last.sync.called
    /\ mem_last.sync.refused
    /\ mem_last.sync.mallocs = 1
    /\ mem_last.sync.frees = 1

\* The slots of nonzero size.
LiveSlots(sl) == {i \in SlotIds : sl[i].memory_size # 0}

\* C18: aehd_region_add registers a section in the lowest slot of size 0,
\* leaving every other slot as it was, so that a slot aehd_region_del freed
\* is taken again before any free slot after it; and the process ends for
\* want of a free slot only when every slot of the table is live, so that no
\* live slot is ever overwritten.
C18_LowestFreeSlotOrAbort ==
    [][/\ (mem_last'.op = "region_add" /\ mem_last'.mem # NULL) =>
           LET mem == mem_last'.mem
           IN /\ mem \notin LiveSlots(slots)
              /\ \A j \in SlotIds : j < mem => j \in LiveSlots(slots)
              /\ LiveSlots(slots') = LiveSlots(slots) \cup {mem}
              /\ \A j \in SlotIds \ {mem} : slots'[j] = slots[j]
       /\ (crashed = "" /\ crashed' = AbortNoFreeSlot) =>
           LiveSlots(slots) = SlotIds]_vars

\* A section was registered in slot 0, which had been freed, while the
\* slot after it is live.
C18_Witness ==
    /\ mem_last.op = "region_add"
    /\ mem_last.mem = 0
    /\ 1 \in LiveSlots(slots)

\* The places of the entries for the vCPU of the last operation in the
\* parked list that operation found.
ParkedBefore ==
    {i \in 1 .. Len(life_last.parked) :
         life_last.parked[i].vcpu_id = life_last.vcpu_id}

\* The AEHD_CREATE_VCPU calls of the last operation.
CreateCalls ==
    {i \in 1 .. Len(life_last.ioctls) :
         life_last.ioctls[i] = "AEHD_CREATE_VCPU"}

\* C19: aehd_init_vcpu for a vCPU that has an entry in the parked list takes
\* one such entry out of the list and uses its handle, without an
\* AEHD_CREATE_VCPU call; for a vCPU with no entry it makes exactly one
\* AEHD_CREATE_VCPU call and leaves the list as it is, and when the
\* hypervisor rejects that call it returns -EFAULT.
C19_ParkedHandleReusedOrOneCreate ==
    life_last.op = "init_vcpu" =>
        LET before == life_last.parked
        IN IF ParkedBefore # {}
           THEN /\ CreateCalls = {}
                /\ \E i \in ParkedBefore :
                       /\ life_last.fd = before[i].aehd_fd
                       /\ aehd_parked_vcpus =
                              SubSeq(before, 1, i - 1)
                              \o SubSeq(before, i + 1, Len(before))
                /\ cpus[life_last.vcpu_id].aehd_fd = life_last.fd
           ELSE /\ Cardinality(CreateCalls) = 1
                /\ aehd_parked_vcpus = before
                /\ (Len(life_last.ioctls) = 1 /\ ~life_last.ok) =>
                       /\ life_last.ret = NEG_EFAULT
                       /\ life_last.fd = INVALID_HANDLE_VALUE
                       /\ ~cpus[life_last.vcpu_id].inited

\* A vCPU was initialized with the handle parked for it.
C19_Witness ==
    /\ life_last.op = "init_vcpu"
    /\ ParkedBefore # {}
    /\ life_last.ret = 0
    /\ cpus[life_last.vcpu_id].aehd_fd = life_last.fd

\* C20: aehd_destroy_vcpu puts the handle of the vCPU at the head of the
\* parked list under the vCPU's id whether AEHD_VCPU_MUNMAP succeeds or
\* fails, and an aehd_init_vcpu of the same vCPU that follows gets that
\* handle.
C20_DestroyAlwaysParks ==
    /\ [](life_last.op = "destroy_vcpu" =>
             /\ life_last.fd # INVALID_HANDLE_VALUE
             /\ aehd_parked_vcpus =
                    <<[vcpu_id |-> life_last.vcpu_id,
                       aehd_fd |-> life_last.fd]>> \o life_last.parked)
    /\ [][(/\ life_last.op = "destroy_vcpu"
           /\ life_last'.op = "init_vcpu"
           /\ life_last'.vcpu_id = life_last.vcpu_id) =>
              life_last'.fd = life_last.fd]_vars

\* A vCPU was destroyed, AEHD_VCPU_MUNMAP failed and its handle is parked.
C20_Witness ==
    /\ life_last.op = "destroy_vcpu"
    /\ ~life_last.ok
    /\ aehd_parked_vcpus # <<>>
    /\ aehd_parked_vcpus[1].aehd_fd = life_last.fd

\* The CPUStates that hold handle h and the places of h in the parked list.
CpusHolding(h) == {id \in VcpuIds : cpus[id].holds /\ cpus[id].aehd_fd = h}
ParkedPlaces(h) ==
    {i \in 1 .. Len(aehd_parked_vcpus) : aehd_parked_vcpus[i].aehd_fd = h}

\* C21: every handle the hypervisor created is held by exactly one holder,
\* a CPUState or an entry of the parked list, and the parked list has at
\* most one entry for a vCPU, whatever aehd_init_vcpu and aehd_destroy_vcpu
\* calls were made and wherever the aehd_init_vcpu calls failed.
C21_EveryHandleHasOneHolder ==
    /\ \A h \in 1 .. nr_created :
           Cardinality(CpusHolding(h)) + Cardinality(ParkedPlaces(h)) = 1
    /\ \A id \in VcpuIds :
           Cardinality({i \in 1 .. Len(aehd_parked_vcpus) :
                            aehd_parked_vcpus[i].vcpu_id = id}) <= 1

\* C22: aehd_irqchip_update_msi_route for a GSI that no entry of the table
\* has returns -ESRCH, the process goes on, and the table, the bitmap and
\* the cache are what they were; for a GSI that an entry has it returns 0
\* with one entry of that GSI replaced by the new MSI entry, every other
\* entry, the number of entries, the bitmap and the cache being what they
\* were.
C22_UpdateReplacesOneEntryOrNotFound ==
    [][irq_last'.op = "update_msi_route" =>
         LET gsi == irq_last'.gsi
             owners == {n \in 1 .. Len(irq_routes) : irq_routes[n].gsi = gsi}
         IN /\ crashed' = ""
            /\ Len(irq_routes') = Len(irq_routes)
            /\ nr_allocated_irq_routes' = nr_allocated_irq_routes
            /\ used_gsi_bitmap' = used_gsi_bitmap
            /\ msi_hashtab' = msi_hashtab
            /\ IF owners = {}
               THEN /\ irq_last'.ret = NEG_ESRCH
                    /\ irq_routes' = irq_routes
               ELSE /\ irq_last'.ret = 0
                    /\ \E n \in owners :
                           /\ irq_routes'[n] = MsiEntry(gsi, irq_last'.msg)
                           /\ \A j \in 1 .. Len(irq_routes) :
                                  j # n => irq_routes'[j] = irq_routes[j]]_vars

\* An update for a GSI that no entry of a table with entries has was
\* answered with -ESRCH.
C22_Witness ==
    /\ irq_last.op = "update_msi_route"
    /\ irq_last.ret = NEG_ESRCH
    /\ irq_routes # <<>>
    /\ crashed = ""

\* The entries of a table that are equal to e.
Copies(table, e) == {n \in 1 .. Len(table) : table[n] = e}

\* C23: after aehd_irqchip_release_virq(s, gsi) no entry of the table has
\* the GSI, the GSI's bit is clear, aehd_arch_release_virq_post was called
\* once, for that GSI, and every entry of another GSI that was in the table
\* is in it as many times as before.
C23_ReleaseRemovesEveryEntry ==
    [][irq_last'.op = "release_virq" =>
         LET gsi == irq_last'.gsi
         IN /\ \A n \in 1 .. Len(irq_routes') : irq_routes'[n].gsi # gsi
            /\ gsi \notin used_gsi_bitmap'
            /\ irq_last'.released = <<gsi>>
            /\ \A n \in 1 .. Len(irq_routes) :
                   irq_routes[n].gsi # gsi =>
                       Cardinality(Copies(irq_routes', irq_routes[n]))
                           = Cardinality(Copies(irq_routes, irq_routes[n]))]_vars

\* aehd_arch_process_async_events told the last aehd_cpu_exec that the vCPU
\* has nothing to run.
HaltAsked ==
    \E i \in 1 .. Len(exec_log) :
        exec_log[i] = Call("aehd_arch_process_async_events", 1)

\* C24: when aehd_arch_process_async_events says that nothing is to be run,
\* aehd_cpu_exec returns EXCP_HLT having called nothing else: no register
\* push, no aehd_arch_pre_run, no AEHD_RUN, and the iothread lock is held
\* throughout; the registers, the dirty flag and the lock are what they
\* were before the call.
C24_HaltReturnsAtOnce ==
    /\ [](HaltAsked =>
              /\ exec_log = <<Call("aehd_arch_process_async_events", 1)>>
              /\ pc = "idle"
              /\ exec_ret = EXCP_HLT
              /\ iothread_locked)
    /\ [][(pc = "idle" /\ exec_log' # exec_log /\ HaltAsked') =>
              /\ UNCHANGED <<vcpu_dirty, emu_regs, hv_regs, unpushed>>
              /\ iothread_locked /\ iothread_locked'
              /\ pc' = "idle"
              /\ exec_ret' = EXCP_HLT]_vars

\* aehd_cpu_exec returned EXCP_HLT for a dirty vCPU whose registers the
\* hypervisor has not been given.
C24_Witness ==
    /\ HaltAsked
    /\ exec_ret = EXCP_HLT
    /\ vcpu_dirty
    /\ unpushed
    /\ emu_regs # hv_regs

\* The last iteration of the loop ended with an IO or MMIO exit, and the
\* next has not begun.
IoExitHandled ==
    /\ run_outcome \in {"AEHD_EXIT_IO", "AEHD_EXIT_MMIO"}
    /\ pc # "post_run"

\* The number of port or memory accesses the exit asks for.
AccessesAsked ==
    IF run_outcome = "AEHD_EXIT_IO" THEN aehd_run.io_count ELSE 1

CallsOf(fn) == {i \in 1 .. Len(exec_log) : exec_log[i].fn = fn}

\* C26: after an AEHD_EXIT_IRQ_WINDOW_OPEN or an AEHD_EXIT_INTR
\* aehd_cpu_exec is on its way out or has returned, with EXCP_INTERRUPT: the
\* run call of the iteration is its last, nothing is called for the exit
\* itself, and on the way out only the iothread lock is taken: no
\* cpu_dump_state, no vm_stop.
C26_InterruptExitReturns ==
    /\ []((/\ run_outcome \in {"AEHD_EXIT_IRQ_WINDOW_OPEN", "AEHD_EXIT_INTR"}
           /\ pc # "post_run") =>
              /\ pc \in {"exit", "idle"}
              /\ exec_ret = EXCP_INTERRUPT
              /\ Cardinality(CallsOf("AEHD_RUN")) = 1
              /\ CallsOf("vm_stop") = {}
              /\ CallsOf("cpu_dump_state") = {}
              /\ exec_log[Len(exec_log)] =
                     IF pc = "exit" THEN Call("aehd_arch_post_run", 0)
                     ELSE Call("qemu_mutex_lock_iothread", 0)
              /\ pc = "idle" =>
                     /\ iothread_locked
                     /\ exec_log[Len(exec_log) - 1]
                            = Call("aehd_arch_post_run", 0))
    /\ [][pc = "exit" => pc' \in {"exit", "idle"}]_vars

\* aehd_cpu_exec has returned after an AEHD_EXIT_IRQ_WINDOW_OPEN.
C26_Witness ==
    /\ run_outcome = "AEHD_EXIT_IRQ_WINDOW_OPEN"
    /\ pc = "idle"
    /\ exec_ret = EXCP_INTERRUPT

\* The calls of exec_log that ask the process for a reset or a shutdown of
\* the guest.
Requests ==
    CallsOf("qemu_system_reset_request")
        \cup CallsOf("qemu_system_shutdown_request")

\* C27: after an AEHD_EXIT_SHUTDOWN one request has been made, a reset
\* request; after an AEHD_SYSTEM_EVENT_SHUTDOWN one, a shutdown request;
\* after an AEHD_SYSTEM_EVENT_RESET one, a reset request; and in each case
\* aehd_cpu_exec is on its way out or has returned, with EXCP_INTERRUPT, the
\* run call of the iteration being its last, and the virtual machine is
\* not stopped.
C27_ShutdownAndResetRequests ==
    /\ []((/\ run_outcome \in {"AEHD_EXIT_SHUTDOWN",
                               "AEHD_SYSTEM_EVENT_SHUTDOWN",
                               "AEHD_SYSTEM_EVENT_RESET"}
           /\ pc # "post_run") =>
              /\ pc \in {"exit", "idle"}
              /\ exec_ret = EXCP_INTERRUPT
              /\ Cardinality(Requests) = 1
              /\ Cardinality(CallsOf("AEHD_RUN")) = 1
              /\ CallsOf("vm_stop") = {}
              /\ \A i \in Requests :
                     /\ i > 1
                     /\ exec_log[i - 1] = Call("aehd_arch_post_run", 0)
                     /\ exec_log[i].fn =
                            IF run_outcome = "AEHD_SYSTEM_EVENT_SHUTDOWN"
                            THEN "qemu_system_shutdown_request"
                            ELSE "qemu_system_reset_request")
    /\ [][pc = "exit" => pc' \in {"exit", "idle"}]_vars
    /\ [](Requests # {} =>
              run_outcome \in {"AEHD_EXIT_SHUTDOWN",
                               "AEHD_SYSTEM_EVENT_SHUTDOWN",
                               "AEHD_SYSTEM_EVENT_RESET"})

\* aehd_cpu_exec has returned after an AEHD_SYSTEM_EVENT_SHUTDOWN, with its
\* shutdown request made.
C27_Witness ==
    /\ run_outcome = "AEHD_SYSTEM_EVENT_SHUTDOWN"
    /\ pc = "idle"
    /\ CallsOf("qemu_system_shutdown_request") # {}

\* The iothread lock is held by the vCPU thread right before call i of
\* exec_log, as the lock and unlock calls before it leave it; at the top of
\* an iteration it is not held.
RECURSIVE LockedBefore(_)
LockedBefore(i) ==
    IF i <= 1 THEN FALSE
    ELSE IF exec_log[i - 1].fn = "qemu_mutex_lock_iothread" THEN TRUE
    ELSE IF exec_log[i - 1].fn = "qemu_mutex_unlock_iothread" THEN FALSE
    ELSE LockedBefore(i - 1)

\* C28: an AEHD_SYSTEM_EVENT_CRASH makes one guest-panic report, with the
\* iothread lock taken right before it and released right after it, and
\* after the registers were pulled from the hypervisor, which they are for a
\* vCPU that is not dirty: the emulator's copy is then the hypervisor's,
\* the vCPU is dirty and the loop goes on without the lock.  An
\* AEHD_SYSTEM_EVENT_other is given to aehd_arch_handle_exit, and to nothing
\* else.
C28_CrashPullsThenReportsUnderLock ==
    /\ [][(pc = "post_run" /\ pc' # "post_run"
           /\ run_outcome = "AEHD_SYSTEM_EVENT_CRASH") =>
              LET panics == CallsOf("qemu_system_guest_panicked")'
                  pulls == CallsOf("aehd_arch_get_registers")'
              IN /\ Cardinality(panics) = 1
                 /\ \A i \in panics :
                        /\ LockedBefore(i)'
                        /\ exec_log'[i - 1] = Call("qemu_mutex_lock_iothread", 0)
                        /\ i < Len(exec_log')
                        /\ exec_log'[i + 1]
                               = Call("qemu_mutex_unlock_iothread", 0)
                        /\ ~vcpu_dirty =>
                               /\ Cardinality(pulls) = 1
                               /\ \A j \in pulls : j < i - 1
                        /\ vcpu_dirty => pulls = {}
                 /\ ~vcpu_dirty => emu_regs' = hv_regs
                 /\ vcpu_dirty'
                 /\ hv_regs' = hv_regs
                 /\ ~iothread_locked /\ ~iothread_locked'
                 /\ ~other_in_lock
                 /\ pc' = "loop"]_vars
    /\ []((run_outcome = "AEHD_SYSTEM_EVENT_other" /\ pc # "post_run") =>
              /\ exec_log[Len(exec_log)].fn
                     = IF pc = "idle" /\ exec_ret >= 0
                       THEN "qemu_mutex_lock_iothread"
                       ELSE IF pc = "idle" THEN "vm_stop"
                       ELSE "aehd_arch_handle_exit"
              /\ Cardinality(CallsOf("aehd_arch_handle_exit")) = 1
              /\ \A i \in CallsOf("aehd_arch_handle_exit") :
                     exec_log[i - 1] = Call("aehd_arch_post_run", 0)
              /\ CallsOf("qemu_system_guest_panicked") = {}
              /\ Requests = {})

\* The guest-panic report of an AEHD_SYSTEM_EVENT_CRASH has been made,
\* after a pull of the registers.
C28_Witness ==
    /\ run_outcome = "AEHD_SYSTEM_EVENT_CRASH"
    /\ pc = "loop"
    /\ CallsOf("qemu_system_guest_panicked") # {}
    /\ CallsOf("aehd_arch_get_registers") # {}
    /\ vcpu_dirty
    /\ emu_regs = hv_regs

\* After an AEHD_EXIT_INTERNAL_ERROR: for an emulation failure on which
\* aehd_arch_stop_on_emulation_error does not stop, the CPU state has been
\* dumped once, right after the hook's answer, the result is soft_ret and
\* the virtual machine is not stopped; in every other case the result is
\* -1, and aehd_cpu_exec returns having taken the lock, dumped the CPU state
\* and stopped the virtual machine.  The hook is asked for an emulation
\* failure only.
InternalErrorHandled(soft_ret) ==
    (run_outcome = "AEHD_EXIT_INTERNAL_ERROR" /\ pc # "post_run") =>
        LET n == Len(exec_log)
            asked == CallsOf("aehd_arch_stop_on_emulation_error")
            goes_on == \E i \in asked : exec_log[i].arg = 0
        IN /\ pc \in {"exit", "idle"}
           /\ (asked # {}) =
                  (aehd_run.suberror = AEHD_INTERNAL_ERROR_EMULATION)
           /\ Cardinality(asked) <= 1
           /\ IF goes_on
              THEN /\ exec_ret = soft_ret
                   /\ Cardinality(CallsOf("cpu_dump_state")) = 1
                   /\ \A i \in asked :
                          exec_log[i + 1] = Call("cpu_dump_state", 0)
                   /\ CallsOf("vm_stop") = {}
              ELSE /\ exec_ret = -1
                   /\ pc = "exit" =>
                          /\ CallsOf("cpu_dump_state") = {}
                          /\ CallsOf("vm_stop") = {}
                   /\ pc = "idle" =>
                          /\ exec_log[n - 2]
                                 = Call("qemu_mutex_lock_iothread", 0)
                          /\ exec_log[n - 1] = Call("cpu_dump_state", 0)
                          /\ exec_log[n] = Call("vm_stop", 0)
                          /\ Cardinality(CallsOf("vm_stop")) = 1

\* C29 as stated: the result for an emulation failure the hook does not
\* stop on is EXCP_HLT.
C29_EmulationFailureHalts ==
    /\ [] InternalErrorHandled(EXCP_HLT)
    /\ [][pc = "exit" => pc' \in {"exit", "idle"}]_vars

\* C29: for an emulation failure on which aehd_arch_stop_on_emulation_error
\* does not stop, the CPU state is dumped and the result is EXCP_INTERRUPT,
\* with which aehd_cpu_exec returns; every other AEHD_EXIT_INTERNAL_ERROR
\* gives -1, for which aehd_cpu_exec dumps the CPU state and stops the
\* virtual machine before it returns.
C29_EmulationFailureInterrupts ==
    /\ [] InternalErrorHandled(EXCP_INTERRUPT)
    /\ [][(pc = "exit" => pc' \in {"exit", "idle"})
              /\ (pc = "exit" /\ pc' = "idle" => exec_ret' = exec_ret)]_vars

\* aehd_cpu_exec has returned after an emulation failure on which the hook
\* did not stop.
C29_Witness ==
    /\ run_outcome = "AEHD_EXIT_INTERNAL_ERROR"
    /\ aehd_run.suberror = AEHD_INTERNAL_ERROR_EMULATION
    /\ pc = "idle"
    /\ Call("aehd_arch_stop_on_emulation_error", 0)
           \in {exec_log[i] : i \in 1 .. Len(exec_log)}
    /\ CallsOf("cpu_dump_state") # {}

\* After an exit with one of the reasons, aehd_arch_handle_exit has been
\* called once, right after aehd_arch_post_run, and what it returned is the
\* result of the iteration: 0 goes round the loop, anything else leaves it.
Delegated(reasons) ==
    (run_outcome \in reasons /\ pc # "post_run") =>
        LET asked == CallsOf("aehd_arch_handle_exit")
        IN /\ Cardinality(asked) = 1
           /\ \A i \in asked :
                  /\ i > 1
                  /\ exec_log[i - 1] = Call("aehd_arch_post_run", 0)
                  /\ exec_ret = exec_log[i].arg
           /\ IF exec_ret = 0 THEN pc = "loop" ELSE pc \in {"exit", "idle"}

\* C30 as stated: AEHD_EXIT_UNKNOWN and every exit reason the switch has no
\* case for are given to aehd_arch_handle_exit, whose result is the result
\* of the iteration.
C30_UnknownAndOtherDelegated ==
    Delegated({"AEHD_EXIT_UNKNOWN", "AEHD_EXIT_other"})

\* C30: every exit reason the switch has no case for is given to
\* aehd_arch_handle_exit, whose result is the result of the iteration;
\* AEHD_EXIT_UNKNOWN is not: its result is -1 without a call of the
\* handler, and aehd_cpu_exec leaves the loop.
C30_OtherDelegatedUnknownFatal ==
    /\ Delegated({"AEHD_EXIT_other"})
    /\ (run_outcome = "AEHD_EXIT_UNKNOWN" /\ pc # "post_run") =>
           /\ CallsOf("aehd_arch_handle_exit") = {}
           /\ exec_ret = -1
           /\ pc \in {"exit", "idle"}
           /\ pc = "idle" => CallsOf("vm_stop") # {}

\* aehd_arch_handle_exit returned EXCP_INTERRUPT for an exit reason the
\* switch has no case for, and aehd_cpu_exec is on its way out with it.
C30_Witness ==
    /\ run_outcome = "AEHD_EXIT_other"
    /\ pc = "exit"
    /\ exec_ret = EXCP_INTERRUPT
    /\ CallsOf("aehd_arch_handle_exit") # {}

\* The calls of exec_log made after aehd_arch_post_run.
CallsAfterPostRun ==
    {exec_log[i].fn : i \in {j \in 1 .. Len(exec_log) :
                                \E k \in CallsOf("aehd_arch_post_run") : j > k}}

\* C31: when AEHD_RUN itself fails, nothing is called for an exit reason:
\* after aehd_arch_post_run aehd_cpu_exec only takes the lock on its way
\* out.  For -EINTR and -EAGAIN the result is EXCP_INTERRUPT and the virtual
\* machine is not stopped; for any other error the result is -1, the loop
\* is left, and the way out dumps the CPU state and stops the virtual
\* machine.
C31_RunFailureNotDispatched ==
    (run_outcome \in RunErrors /\ pc # "post_run") =>
        /\ pc \in {"exit", "idle"}
        /\ Cardinality(CallsOf("AEHD_RUN")) = 1
        /\ \A i \in CallsOf("AEHD_RUN") :
               exec_log[i + 1] = Call("aehd_arch_post_run", 0)
        /\ IF run_outcome \in {"EINTR", "EAGAIN"}
           THEN /\ exec_ret = EXCP_INTERRUPT
                /\ CallsAfterPostRun =
                       IF pc = "idle" THEN {"qemu_mutex_lock_iothread"}
                       ELSE {}
           ELSE /\ exec_ret = -1
                /\ CallsAfterPostRun =
                       IF pc = "idle"
                       THEN {"qemu_mutex_lock_iothread", "cpu_dump_state",
                             "vm_stop"}
                       ELSE {}

\* aehd_cpu_exec has returned after AEHD_RUN failed with -EAGAIN.
C31_Witness ==
    /\ run_outcome = "EAGAIN"
    /\ pc = "idle"
    /\ exec_ret = EXCP_INTERRUPT

C33_ControlCallResults ==
    ioctl_last.scope # "" =>
        /\ ioctl_last.ret =
              CASE ioctl_last.error = "ERROR_SUCCESS" -> 0
                [] ioctl_last.error = "ERROR_MORE_DATA" -> NEG_E2BIG
                [] ioctl_last.error = "ERROR_RETRY" -> NEG_EAGAIN
                [] OTHER -> NEG_EFAULT
        /\ ioctl_last.ret <= 0
        /\ ioctl_last.ret # NEG_EINTR

\* A control call on the VM failed because the operation was aborted, and
\* returned -EFAULT.
C33_Witness ==
    /\ ioctl_last.scope = "vm"
    /\ ioctl_last.error = "ERROR_OPERATION_ABORTED"
    /\ ioctl_last.ret = NEG_EFAULT

\* C34: in aehd_init an AEHD_CREATE_VM call that returns -EAGAIN or -EINTR
\* is made again (as long as attempts are left), aehd_init does not return
\* such a result, and no other control call of aehd_init that failed is made
\* again at once.
C34_TransientCreateVmRetried ==
    init_last.called =>
        LET made == init_last.create_vm
            Transient == {NEG_EAGAIN, NEG_EINTR}
        IN /\ \A i \in 1 .. Len(made) :
                  (made[i] \in Transient /\ i < MaxAttempts) => i < Len(made)
           /\ Len(made) < MaxAttempts => init_last.ret \notin Transient
           /\ \A i \in 1 .. Len(init_last.others) - 1 :
                  init_last.others[i].ret < 0 =>
                      \/ init_last.others[i + 1].type # init_last.others[i].type
                      \/ init_last.others[i + 1].arg # init_last.others[i].arg

(***************************************************************************)
(* Kicks                                                                   *)
(***************************************************************************)
\* The last aehd_raise_event was on the vCPU while its thread was in the
\* run call, the hypervisor accepted the kick and has not honoured it yet.
KickedInRun ==
    /\ kick_last.called
    /\ kick_last.had_run
    /\ kick_last.at = "run"
    /\ kick_last.kicks = <<0>>
    /\ pc = "run"
    /\ user_event_pending
    /\ kick_pending

\* C35: after aehd_raise_event on a vCPU whose thread is in the run call,
\* with a hypervisor that honours the kick, the run call comes back and
\* aehd_cpu_exec returns to its caller (with EXCP_INTERRUPT, the lock
\* held); aehd_raise_event on a CPUState that has no run structure makes no
\* control call and changes nothing.
C35_KickEndsRunAndNoRunNoKick ==
    /\ KickedInRun ~> (pc = "idle" /\ exec_ret = EXCP_INTERRUPT
                         /\ iothread_locked)
    /\ [][(kick_last' # kick_last /\ ~kick_last'.had_run) =>
              /\ kick_last'.kicks = <<>>
              /\ UNCHANGED <<user_event_pending, kick_pending, vcpu_vars>>]_vars

\* aehd_cpu_exec has returned EXCP_INTERRUPT after a kick in the run call.
C35_Witness ==
    /\ kick_last.called
    /\ kick_last.had_run
    /\ kick_last.at = "run"
    /\ kick_last.kicks = <<0>>
    /\ ~kick_pending
    /\ pc = "idle"
    /\ run_outcome = "AEHD_EXIT_INTR"
    /\ exec_ret = EXCP_INTERRUPT

(***************************************************************************)
(* The MSI cache, the table and what the hypervisor was given              *)
(***************************************************************************)
\* C36: when send_msi has signalled a GSI, the table last committed holds
\* the MSI entry of that GSI and of the message sent; on a miss the GSI was
\* allocated, its entry appended and the table committed, once, and the
\* route is in the cache.
C36_SignalledRouteIsCommitted ==
    (irq_last.op = "send_msi" /\ irq_last.signals # <<>>) =>
        LET sent == MsiEntry(irq_last.signals[1], irq_last.msg)
        IN /\ sent \in hv_cached
           /\ ~irq_last.hit =>
                  /\ irq_last.alloc
                  /\ irq_last.virq = irq_last.signals[1]
                  /\ irq_last.commits = 1
                  /\ sent \in Range(irq_routes)
                  /\ sent \in Range(CachedRoutes(msi_hashtab))

\* C37: every route in the MSI cache has its GSI marked in the bitmap and
\* its entry, with the same address and data, in the table; a cache hit of
\* send_msi signals the GSI of such a route.
C37_CachedRoutesAreLive ==
    /\ \A r \in Range(CachedRoutes(msi_hashtab)) :
           /\ r.gsi \in used_gsi_bitmap
           /\ r \in Range(irq_routes)
    /\ (irq_last.op = "send_msi" /\ irq_last.hit) =>
           /\ irq_last.signals[1] \in used_gsi_bitmap
           /\ MsiEntry(irq_last.signals[1], irq_last.msg) \in Range(irq_routes)

\* C38: a GSI is marked in the bitmap if and only if at least one entry of
\* the table carries it.
C38_BitmapMatchesTable ==
    \A gsi \in Gsis :
        gsi \in used_gsi_bitmap <=>
            \E n \in 1 .. Len(irq_routes) : irq_routes[n].gsi = gsi

(***************************************************************************)
(* The iothread lock across aehd_cpu_exec                                  *)
(***************************************************************************)
\* C39: aehd_cpu_exec is called with the iothread lock held and has it when
\* it returns, whatever it returns; it does not hold the lock in the run
\* call; it takes the lock only when it does not hold it; and whenever it
\* returns the exit request is cleared.
C39_LockBalancedAcrossExec ==
    /\ [](pc = "idle" => iothread_locked)
    /\ [](pc = "run" => ~iothread_locked)
    /\ [](pc # "idle" =>
              \A i \in CallsOf("qemu_mutex_lock_iothread") : ~LockedBefore(i))
    /\ [][(pc = "exit" /\ pc' = "idle") =>
              /\ ~iothread_locked
              /\ iothread_locked'
              /\ ~LockedBefore(Len(exec_log) + 1)
              /\ exec_log'[Len(exec_log) + 1]
                     = Call("qemu_mutex_lock_iothread", 0)
              /\ ~exit_request']_vars
    /\ [][(pc = "idle" /\ exec_log' # exec_log /\ HaltAsked') =>
              /\ iothread_locked'
              /\ CallsOf("qemu_mutex_lock_iothread")' = {}
              /\ CallsOf("qemu_mutex_unlock_iothread")' = {}
              /\ ~exit_request']_vars

\* aehd_cpu_exec has returned -1 after a run call, with the lock held and
\* the exit request cleared.
C39_Witness ==
    /\ pc = "idle"
    /\ exec_ret < 0
    /\ CallsOf("AEHD_RUN") # {}
    /\ CallsOf("qemu_mutex_lock_iothread") # {}
    /\ iothread_locked
    /\ ~exit_request

====
